---- MODULE Spec2Model ----
(***************************************************************************)
(* Streaming batch pipeline with checkpointed recovery and LRU embedding   *)
(* cache: LRUCache / EmbeddingAgent (agents/embedding_agent.py),           *)
(* DatabaseAgent (agents/database_agent.py), IngestionAgent                *)
(* (agents/ingestion_agent.py), CheckpointManager (utils/checkpoint.py)    *)
(* and Orchestrator (agents/orchestrator.py).                              *)
(***************************************************************************)
EXTENDS Integers, Sequences, FiniteSets, Bags, TLC

\* ------------------------------------------------------------------ bounds
\* capacity of the LRUCache (config embedding.cache_size, default 10000)
CacheMaxSize == 2
\* number of distinct chunk texts; one more than the capacity, so that
\* inserting N+1 distinct keys is possible
NumTexts == CacheMaxSize + 1
\* number of distinct vectors a caller may put under a key
NumVectors == 2

\* number of files in the input directory
NumDocs == 3
\* documents per streaming batch (config memory.stream_batch_size, default 50)
StreamBatchSize == 2
\* texts per request group of _generate_embeddings (batch_size, default 100)
EmbedBatchSize == 2
\* number of times the pipeline is started
MaxRuns == 2
\* the most pieces the text splitter cuts a document into
MaxPieces == 3
\* number of failures (of a file, the provider, the store or the disk) in one history
MaxFaults == 1
\* number of documents handed to the embedding stage on its own
MaxCalls == 2

\* the largest value of config gemini.max_retries the retry loop is run with
MaxRetries == 3

\* number of fields of a metadata dictionary
NumMetaKeys == 2

\* the most files a directory listing of the ingestion agent holds
MaxScan == 2

\* retry attempts per request group (config gemini.max_retries, default 3)
max_retries == 3

\* tokens per chunk (config chunking.chunk_size, default 800)
chunk_size == 800
\* tokens shared by consecutive chunks (config chunking.chunk_overlap, default 200)
chunk_overlap == 200
\* characters a chunk must have to be kept (config chunking.min_chunk_size, default 100)
min_chunk_size == 100
\* characters of the plaintext document of the end-to-end scenario
ScenarioLength == 2500

Texts == 1..NumTexts
Docs == 1..NumDocs
Vectors == 1..NumVectors

\* Python None where a vector is expected
None == 0
\* Python None where a string is expected
NoContent == "None"
\* no key (the last operation took none)
NoKey == <<"md5", 0>>

\* ------------------------------------------------------------------ state
VARIABLES
  cache,        \* LRUCache.cache: OrderedDict as a sequence of <<key, value>>, oldest first
  cacheFile,    \* embedding_cache.pkl: [state: "absent" | "ok" | "corrupt", data: pickled dict]
  lastOp,       \* history: the last cache operation, its arguments and its result
  accessOrder,  \* history: keys of the cache by time of last access (get hit or put), oldest first
  lastWritten,  \* history: for each key still cached, the value of the last put(key, value)
  skip_duplicates,   \* config pipeline.skip_duplicates
  store,             \* the vector store collection: number of records per (source_file, chunk_index, text, embedding)
  hashFile,          \* processed_dir/.hashes: [exists, hashes]
  checkpointFile,    \* processed_dir/.checkpoint.json: [exists, processed_files, current_batch, total_batches]
  pc,                \* position of the coordinator; "idle" when no process is running
  parallel,          \* argument of Orchestrator.process
  processed_hashes,  \* IngestionAgent.processed_hashes
  all_documents,     \* Orchestrator.process: the documents left after the resume filter
  processed_files,   \* Orchestrator.process: the cumulative completed-key list
  start_batch,       \* Orchestrator.process: batch number read from the checkpoint
  batch_idx,         \* Orchestrator.process: offset of the current batch in all_documents
  batch,             \* the DocumentData objects of the current batch (input of the current stage)
  todo,              \* indices of batch the current stage runner has not yet collected
  processed,         \* the current stage runner's output list
  runs,              \* history: number of runs started
  runInfo,           \* history: of the current run, whether it resumes, whether it loaded the checkpoint,
                     \* the completed keys of the checkpoint on disk at its start, the
                     \* documents ingestion returned and those left after the resume filter
  passed,            \* history: documents handed to each stage in the current run
  ends,              \* history: how each finished run ended
  faults,            \* history: number of failures so far
  call,              \* history: the last call of the embedding stage for one document
  scan,              \* IngestionAgent on its own: the directory listing of the run, the number
                     \* of files scanned, the hashes loaded at start, the files returned as
                     \* documents, and the contents whose hash a finished run saved
  memory,            \* history: the memory reading after the last batch and the collection
                     \* passes that followed it
  chunkLoop,         \* the while loop of _simple_chunk on the text of the plaintext file:
                     \* the text, the position start, and the parity of the iterations
  pool,              \* the thread pool of _parallel_store: the database agent's stats, and
                     \* for each submitted document where its worker thread is, the
                     \* counter it increments, the value it read and the document returned
  retryLoop,         \* history: the last run of the retry loop of _generate_embeddings for one
                     \* request group: what the provider did at each attempt, and the result
  flat,              \* history: the last call of DatabaseAgent._flatten_metadata, its
                     \* argument and the dictionary it returned
  chunker,           \* history: the text the last call of _chunk_text was given and the
                     \* character ranges _simple_chunk cut it into
  step               \* history: the last document a stage runner collected, before and after
                     \* its agent's process(), with the store and the cache before the call

cacheVars == <<cache, cacheFile>>
cacheHist == <<lastOp, accessOrder, lastWritten>>
diskVars == <<store, hashFile, checkpointFile>>
procVars == <<pc, parallel, processed_hashes, all_documents, processed_files, start_batch,
              batch_idx, batch, todo, processed>>
pipeHist == <<runs, runInfo, passed, ends, faults>>
vars == <<cache, cacheFile, lastOp, accessOrder, lastWritten, skip_duplicates, store,
          hashFile, checkpointFile, pc, parallel, processed_hashes, all_documents,
          processed_files, start_batch, batch_idx, batch, todo, processed, runs, runInfo, passed,
          ends, faults, call, step, scan, chunker, flat, retryLoop, pool, memory, chunkLoop>>

\* ------------------------------------------------------- sequence helpers
Range(s) == {s[i] : i \in 1..Len(s)}

RemoveAt(s, i) == SubSeq(s, 1, i - 1) \o SubSeq(s, i + 1, Len(s))

\* ---------------------------------------------------------------- LRUCache
\* EmbeddingAgent._hash_text: md5 of the UTF-8 bytes of the text (injective on Texts)
_hash_text(text) == <<"md5", text>>

CacheKeys == {_hash_text(t) : t \in Texts}

\* keys of an OrderedDict
Keys(c) == {c[i][1] : i \in 1..Len(c)}

IndexOf(c, key) == CHOOSE i \in 1..Len(c) : c[i][1] = key

\* OrderedDict.__getitem__
Lookup(c, key) == c[IndexOf(c, key)][2]

\* OrderedDict.move_to_end(key)
move_to_end(c, key) == LET i == IndexOf(c, key) IN Append(RemoveAt(c, i), c[i])

\* OrderedDict.popitem(last=False)
popitem_first(c) == Tail(c)

\* LRUCache.get: the cache after the call and the value returned
LRUGet(c, key) ==
  IF key \in Keys(c)
  THEN [cache |-> move_to_end(c, key), result |-> Lookup(c, key)]
  ELSE [cache |-> c, result |-> None]

\* a put that never evicts
MutPutNoEvict(c, key, value) ==
  IF key \in Keys(c) THEN move_to_end(c, key) ELSE Append(c, <<key, value>>)

\* a put that evicts the newest entry instead of the oldest
MutPutEvictNewest(c, key, value) ==
  IF key \in Keys(c)
  THEN move_to_end(c, key)
  ELSE IF Len(c) >= CacheMaxSize
       THEN Append(SubSeq(c, 1, Len(c) - 1), <<key, value>>)
       ELSE Append(c, <<key, value>>)

\* LRUCache.put: an existing key is only moved to the end (its value is kept);
\* a new key is appended and the oldest entry is popped when over max_size
LRUPut(c, key, value) ==
  IF key \in Keys(c)
  THEN move_to_end(c, key)
  ELSE LET c1 == Append(c, <<key, value>>)
       IN IF Len(c1) > CacheMaxSize THEN popitem_first(c1) ELSE c1

\* EmbeddingAgent.load_cache, the loop over cache_dict.items()
RECURSIVE PutAll(_, _)
PutAll(c, items) ==
  IF items = <<>> THEN c
  ELSE PutAll(LRUPut(c, items[1][1], items[1][2]), Tail(items))

\* a load_cache that stops before the last item of the file
MutLoadCacheDropsLast(c, file) ==
  IF file.state = "ok" THEN PutAll(c, SubSeq(file.data, 1, Len(file.data) - 1)) ELSE c

\* EmbeddingAgent.load_cache: no file, or a file that cannot be unpickled, leaves
\* the cache as it is
LoadCacheInto(c, file) ==
  IF file.state = "ok" THEN PutAll(c, file.data) ELSE c

\* outcomes of writing the cache file: written, open() failed (file untouched),
\* or pickle.dump failed after open(..., 'wb') truncated the file
SaveOutcomes == {"ok", "open_failed", "write_failed"}

\* EmbeddingAgent.save_cache: dict(self.embedding_cache.cache) pickled to the file;
\* every exception is logged and swallowed
SaveCacheFile(c, old, outcome) ==
  CASE outcome = "ok" -> [state |-> "ok", data |-> c]
    [] outcome = "open_failed" -> old
    [] OTHER -> [state |-> "corrupt", data |-> <<>>]

\* ------------------------------------------------------------- documents
\* the files of the input directory in directory.rglob('*') order
Discovered == [i \in 1..NumDocs |-> i]

\* the bytes of a file: the files of the input directory differ, and file
\* NumDocs + k is a copy of file k under another name
BytesOf(f) == ((f - 1) % NumDocs) + 1

\* the files and their copies
Files == 1..(2 * NumDocs)

\* IngestionAgent._detect_file_type: text files, PDFs and images
FileTypeOf(d) ==
  CASE BytesOf(d) % 3 = 1 -> "txt" [] BytesOf(d) % 3 = 2 -> "pdf" [] OTHER -> "png"

ImageTypes == {"png", "jpg", "jpeg", "tiff", "bmp", "image"}

\* IngestionAgent._compute_hash: sha256 of the file's bytes
_compute_hash(d) == <<"sha256", BytesOf(d)>>

\* what _compute_hash returns when the file cannot be read: the empty string
EmptyHash == <<"sha256", 0>>

\* the pieces the text splitter cuts the text of file d into; 0 stands for a
\* piece shorter than min_chunk_size
NumPieces(d) == ((d - 1) % MaxPieces) + 1
SplitText(d) ==
  [i \in 1..NumPieces(d) |->
     IF d % 3 = 2 /\ i = 1 THEN 0 ELSE ((d + i - 2) % NumTexts) + 1]

\* the embedding provider's vector for a text
EmbedOf(text) == ((text - 1) % NumVectors) + 1

\* DocumentData.__init__
NewDoc(d) ==
  [file_path |-> d, file_type |-> FileTypeOf(d), content |-> NoContent,
   requires_ocr |-> FALSE, processing_status |-> "pending",
   chunks |-> <<>>, embeddings |-> <<>>, errors |-> <<>>]

Min(S) == CHOOSE x \in S : \A y \in S : x <= y

\* --------------------------------------------------------- IngestionAgent
\* what reading a file of supported format can do: succeed, fail while it is
\* hashed, or fail while its raw bytes are loaded
FileOutcomes == {"ok", "hash_failed", "read_failed"}

\* the extensions whose raw bytes _process_file loads
RawDataTypes == {"png", "jpg", "jpeg", "tiff", "bmp", "pdf", "docx", "doc", "msg", "eml"}

\* a _process_file that looks the hash up but never records it
MutProcessFileForgetsHash(f, hashes, skip, outcome) ==
  LET h == IF outcome = "hash_failed" THEN EmptyHash ELSE _compute_hash(f)
  IN IF (skip /\ h \in hashes) \/ (outcome = "read_failed" /\ FileTypeOf(f) \in RawDataTypes)
     THEN [documents |-> <<>>, processed_hashes |-> hashes]
     ELSE [documents |-> <<NewDoc(f)>>, processed_hashes |-> hashes]

\* IngestionAgent._process_file for a file of supported format: the documents
\* returned (none or one) and processed_hashes after the call
_process_file(f, hashes, skip, outcome) ==
  LET h == IF outcome = "hash_failed" THEN EmptyHash ELSE _compute_hash(f)
      hashes1 == IF skip THEN hashes \cup {h} ELSE hashes
  IN IF skip /\ h \in hashes
     THEN [documents |-> <<>>, processed_hashes |-> hashes]
     ELSE IF outcome = "read_failed" /\ FileTypeOf(f) \in RawDataTypes
     THEN [documents |-> <<>>, processed_hashes |-> hashes1]
     ELSE [documents |-> <<NewDoc(f)>>, processed_hashes |-> hashes1]

\* IngestionAgent._scan_directory with _process_file on every file, every file
\* readable: a file whose hash is already in processed_hashes is skipped, any
\* other hash is added
RECURSIVE Ingest(_, _, _, _)
Ingest(files, hashes, docs, skip) ==
  IF files = <<>> THEN [documents |-> docs, processed_hashes |-> hashes]
  ELSE LET r == _process_file(files[1], hashes, skip, "ok")
       IN Ingest(Tail(files), r.processed_hashes, docs \o r.documents, skip)

\* IngestionAgent.load_processed_hashes
LoadHashes(file) == IF file.exists THEN file.hashes ELSE {}

\* IngestionAgent.save_processed_hashes; every exception is logged and swallowed
SaveHashFile(hashes, old, outcome) ==
  CASE outcome = "ok" -> [exists |-> TRUE, hashes |-> hashes]
    [] outcome = "open_failed" -> old
    [] OTHER -> [exists |-> TRUE, hashes |-> {}]

\* ------------------------------------------------------ CheckpointManager
NoCheckpoint ==
  [state |-> "absent", processed_files |-> <<>>, current_batch |-> 0, total_batches |-> 0]

\* CheckpointManager.save_checkpoint; every exception is logged and swallowed
SaveCheckpointFile(files, current, total, old, outcome) ==
  CASE outcome = "ok" ->
         [state |-> "ok", processed_files |-> files, current_batch |-> current,
          total_batches |-> total]
    [] outcome = "open_failed" -> old
    [] OTHER -> [NoCheckpoint EXCEPT !.state = "corrupt"]

\* a load_checkpoint that returns whatever file it finds
MutLoadCorruptCheckpoint(file) ==
  IF file.state = "absent" THEN NoCheckpoint ELSE [file EXCEPT !.state = "ok"]

\* CheckpointManager.load_checkpoint: no checkpoint when the file is missing or unreadable
load_checkpoint(file) == IF file.state = "ok" THEN file ELSE NoCheckpoint

\* a clear_checkpoint that leaves the file where it is
MutClearKeepsFile(file, unlinked) == file

\* CheckpointManager.clear_checkpoint: the file is unlinked, or unlink raised and
\* the exception was logged and swallowed
clear_checkpoint(file, unlinked) == IF unlinked THEN NoCheckpoint ELSE file

\* the checkpoint file after a process died inside save_checkpoint: open(..., 'w')
\* has truncated it and json.dump has written none or a part of the text
TornCheckpoint == [NoCheckpoint EXCEPT !.state = "corrupt"]

\* the resume filter of Orchestrator.process kept every document
MutKeepAll(docs, files) == docs

\* Orchestrator.process: the documents whose path is not in processed_files
ResumeFilter(docs, files) ==
  SelectSeq(docs, LAMBDA doc : doc.file_path \notin Range(files))

\* ------------------------------------------------- extraction and OCR agents
\* what the extraction of a file can yield: its text, a text whose pieces are
\* all below min_chunk_size, no text, no text layer (PDF), or an exception
ExtractOutcomes(file_type) ==
  CASE file_type = "pdf" -> {"text", "requires_ocr", "raise"}
    [] file_type \in ImageTypes -> {"text", "empty", "raise"}
    [] OTHER -> {"text", "tiny", "empty", "raise"}

\* ExtractionAgent.process
ExtractionProcess(doc, outcome) ==
  IF doc.file_type \notin {"pdf", "txt"} THEN doc
  ELSE IF outcome = "raise"
  THEN [doc EXCEPT !.processing_status = "failed",
                   !.errors = Append(@, "Extraction error")]
  ELSE LET d1 == CASE outcome \in {"text", "tiny"} -> [doc EXCEPT !.content = outcome]
                   [] outcome = "requires_ocr" -> [doc EXCEPT !.requires_ocr = TRUE]
                   [] OTHER -> [doc EXCEPT !.content = ""]
       IN IF d1.content \in {"text", "tiny"}
          THEN [d1 EXCEPT !.processing_status = "completed"]
          ELSE [d1 EXCEPT !.errors = Append(@, "No text extracted")]

\* OCRAgent.process (an ingested image always carries its raw bytes)
OcrProcess(doc, outcome) ==
  IF doc.file_type \notin ImageTypes THEN doc
  ELSE IF outcome = "raise"
  THEN [doc EXCEPT !.processing_status = "failed", !.errors = Append(@, "OCR error")]
  ELSE [doc EXCEPT !.content = IF outcome = "text" THEN "text" ELSE "",
                   !.processing_status = "completed"]

\* a runner that never hands a PDF to the OCR agent
MutExtractTraceNoOcrForPdf(doc, outcome) ==
  IF doc.file_type \in ImageTypes
  THEN [doc |-> OcrProcess(doc, outcome), extracted |-> doc, ocr_called |-> TRUE]
  ELSE LET d1 == ExtractionProcess(doc, outcome)
       IN [doc |-> d1, extracted |-> d1, ocr_called |-> FALSE]

\* Orchestrator._sequential_extract / _parallel_extract, for one document: the
\* document appended to the output list, the document as extraction_agent.process
\* returned it (the document itself for an image), and whether ocr_agent.process
\* was called
ExtractTrace(doc, outcome) ==
  IF doc.file_type \in ImageTypes
  THEN [doc |-> OcrProcess(doc, outcome), extracted |-> doc, ocr_called |-> TRUE]
  ELSE LET d1 == ExtractionProcess(doc, outcome)
       IN IF d1.file_type = "pdf" /\ d1.requires_ocr
          THEN [doc |-> OcrProcess(d1, outcome), extracted |-> d1, ocr_called |-> TRUE]
          ELSE [doc |-> d1, extracted |-> d1, ocr_called |-> FALSE]

\* the document a runner of the extraction stage appends for one document
ExtractOne(doc, outcome) == ExtractTrace(doc, outcome).doc

\* ---------------------------------------------------------- EmbeddingAgent
\* a text at the level of characters: its length and the positions (from 0) at
\* which a paragraph break "\n\n" and a sentence break ". " start
TextLengths ==
  {min_chunk_size - 1, ScenarioLength, 4 * chunk_size + min_chunk_size,
   8 * chunk_size - 4 * chunk_overlap + min_chunk_size}
ParaBreaks == {4 * chunk_size - chunk_overlap, 6 * chunk_size + chunk_overlap}
SentBreaks == {4 * chunk_size - min_chunk_size}
CharTexts ==
  {t \in [len : TextLengths, para : SUBSET ParaBreaks, sent : SUBSET SentBreaks] :
     \A p \in t.para \cup t.sent : p + 2 <= t.len}

Max(S) == CHOOSE x \in S : \A y \in S : x >= y

\* str.rfind(sub, start, end) for a two-character sub that starts at the positions
\* in breaks: the highest position in [start, end - 2], or -1
rfind(breaks, start, end) ==
  LET found == {p \in breaks : start <= p /\ p + 2 <= end}
  IN IF found = {} THEN -1 ELSE Max(found)

\* EmbeddingAgent._simple_chunk, the while loop from position start on: the
\* slices text[start:end] as pairs <<start, end>>; the loop is followed for
\* MaxPieces + 1 slices at most
RECURSIVE SimpleChunkLoop(_, _, _, _)
SimpleChunkLoop(text, size, start, chunks) ==
  IF ~(start < text.len) \/ Len(chunks) > MaxPieces THEN chunks
  ELSE LET char_chunk_size == size * 4
           overlap == chunk_overlap * 4
           end0 == start + char_chunk_size
           para_break == rfind(text.para, start, end0)
           sent_break == rfind(text.sent, start, end0)
           end == IF end0 < text.len
                  THEN IF para_break > start THEN para_break + 2
                       ELSE IF sent_break > start THEN sent_break + 2 ELSE end0
                  ELSE end0
           slice == <<start, IF end < text.len THEN end ELSE text.len>>
       IN SimpleChunkLoop(text, size, IF end < text.len THEN end - overlap ELSE end,
                          Append(chunks, slice))

\* EmbeddingAgent._simple_chunk
_simple_chunk(text, size) == SimpleChunkLoop(text, size, 0, <<>>)

\* the texts on which the loop of _simple_chunk ends within MaxPieces slices
ScenarioTexts == {t \in CharTexts : Len(_simple_chunk(t, chunk_size)) <= MaxPieces}

\* the whitespace of a text: the characters of its paragraph breaks and the
\* blank of its sentence breaks
Whitespace(text) == text.para \cup {p + 1 : p \in text.para} \cup {p + 1 : p \in text.sent}

\* str.lstrip and str.rstrip on the slice text[s:e]: the slice that is left
RECURSIVE lstrip(_, _, _)
lstrip(text, s, e) == IF s < e /\ s \in Whitespace(text) THEN lstrip(text, s + 1, e) ELSE s
RECURSIVE rstrip(_, _, _)
rstrip(text, s, e) == IF s < e /\ (e - 1) \in Whitespace(text) THEN rstrip(text, s, e - 1) ELSE e

\* len(chunk_text.strip()) of the slice text[s:e]
StripLen(text, s, e) == LET s1 == lstrip(text, s, e) IN rstrip(text, s1, e) - s1

\* the slices as pieces: 0 for a slice shorter than min_chunk_size, else the
\* slice's own text, named by its position
PiecesOf(text, slices) ==
  [k \in 1..Len(slices) |->
     IF StripLen(text, slices[k][1], slices[k][2]) < min_chunk_size THEN 0 ELSE k]

\* EmbeddingAgent._chunk_text, the splitter's output for the text of file d
text_chunks(content, d) == IF content = "text" THEN SplitText(d) ELSE <<0>>

\* EmbeddingAgent._chunk_text, the chunk objects: one chunk per piece of at
\* least min_chunk_size, its chunk_index the position of the piece in the
\* splitter's output
ChunkObjects(pieces) ==
  LET all == [i \in 1..Len(pieces) |->
                [text |-> pieces[i], chunk_index |-> i - 1, embedding |-> None,
                 db_id |-> FALSE]]
  IN SelectSeq(all, LAMBDA ch : ch.text # 0)

\* EmbeddingAgent._chunk_text
_chunk_text(content, d) == ChunkObjects(text_chunks(content, d))

\* _generate_embeddings, the cache lookup of one request group
RECURSIVE LookupGroup(_, _, _)
LookupGroup(texts, c, batch_embeddings) ==
  IF texts = <<>> THEN [cache |-> c, batch_embeddings |-> batch_embeddings]
  ELSE LET r == LRUGet(c, _hash_text(texts[1]))
       IN LookupGroup(Tail(texts), r.cache, Append(batch_embeddings, r.result))

\* _generate_embeddings, caching the new embeddings of one request group
RECURSIVE CacheNew(_, _, _)
CacheNew(texts, batch_embeddings, c) ==
  IF texts = <<>> THEN c
  ELSE CacheNew(Tail(texts), Tail(batch_embeddings),
                IF batch_embeddings[1] = None
                THEN LRUPut(c, _hash_text(texts[1]), EmbedOf(texts[1])) ELSE c)

\* what the provider does with one request: it answers with one embedding per
\* text, or with a response that holds one embedding fewer than the texts sent,
\* or it raises an error whose message names a rate limit or a quota, or it
\* raises another error
ProviderAnswers == {"ok", "short", "rate_limit", "other"}

\* EmbeddingAgent._generate_embeddings, the retry loop of one request group
\* from attempt retry (counted from 0) on: attempts[k] is what the provider does
\* with the k-th request; waits are the arguments of time.sleep before a retry
RECURSIVE RetryFrom(_, _, _, _, _)
RetryFrom(attempts, retries, retry, retry_delay, waits) ==
  IF retry >= retries
  THEN [outcome |-> "not_called", calls |-> retry, waits |-> waits]
  ELSE IF attempts[retry + 1] = "ok"
  THEN [outcome |-> "success", calls |-> retry + 1, waits |-> waits]
  ELSE IF attempts[retry + 1] = "short"
  THEN [outcome |-> "short", calls |-> retry + 1, waits |-> waits]
  ELSE IF attempts[retry + 1] = "rate_limit"
  THEN IF retry < retries - 1
       THEN RetryFrom(attempts, retries, retry + 1, retry_delay * 2, Append(waits, retry_delay))
       ELSE [outcome |-> "gave_up", calls |-> retry + 1, waits |-> waits]
  ELSE IF retry < retries - 1
       THEN RetryFrom(attempts, retries, retry + 1, retry_delay * 2, Append(waits, retry_delay))
       ELSE [outcome |-> "gave_up", calls |-> retry + 1, waits |-> waits]

\* a retry loop that waits the same time before every retry
MutRetryLoopConstantDelay(attempts, retries) ==
  LET r == RetryFrom(attempts, retries, 0, 1, <<>>)
  IN [r EXCEPT !.waits = [k \in 1..Len(@) |-> 1]]

\* the retry loop of one request group: retry_delay starts at 1.0 second
RetryLoop(attempts, retries) == RetryFrom(attempts, retries, 0, 1, <<>>)

\* a provider that raises at the first n requests of a group and then answers
AttemptsOf(n) == [k \in 1..max_retries |-> IF k <= n THEN "other" ELSE "ok"]

\* BaseAgent.__init__: the statistics of a new agent, and no thread pool
NoPool == [stats |-> [processed |-> 0, failed |-> 0, skipped |-> 0],
           at |-> <<>>, log |-> <<>>, read |-> <<>>, result |-> <<>>]

\* no call of _generate_embeddings with its own provider and configuration yet
NoRetry == [called |-> FALSE, texts |-> <<>>, attempts |-> <<>>, max_retries |-> 0,
            cacheBefore |-> <<>>,
            result |-> [embeddings |-> <<>>, cache |-> <<>>, failed |-> 0, calls |-> 0,
                        requests |-> <<>>]]

\* a request that carries every text of the group, cached or not
MutSendWholeGroup(grp, batch_embeddings) == grp

\* the texts of a request group that had no cache entry, in the group's order
UncachedTexts(grp, batch_embeddings) ==
  LET uncached_indices == SelectSeq([j \in 1..Len(grp) |-> j],
                                    LAMBDA j : batch_embeddings[j] = None)
  IN [k \in 1..Len(uncached_indices) |-> grp[uncached_indices[k]]]

\* a loop that writes the k-th embedding of the response to position k of the
\* group, whichever text it was computed for
MutFillByResponseOrder(batch_embeddings, new_embeddings, uncached_indices) ==
  [j \in 1..Len(batch_embeddings) |->
     IF j <= Len(new_embeddings) THEN new_embeddings[j] ELSE batch_embeddings[j]]

\* _generate_embeddings, the loop over zip(uncached_texts, new_embeddings,
\* uncached_indices): batch_embeddings[idx] = embedding, as far as the shortest
\* of the lists goes
FillGroup(batch_embeddings, new_embeddings, uncached_indices) ==
  [j \in 1..Len(batch_embeddings) |->
     IF \E k \in 1..Len(new_embeddings) : k <= Len(uncached_indices) /\ uncached_indices[k] = j
     THEN new_embeddings[CHOOSE k \in 1..Len(new_embeddings) : uncached_indices[k] = j]
     ELSE batch_embeddings[j]]

\* EmbeddingAgent._generate_embeddings from request group g on: attempts[g][k]
\* is what the provider does with the k-th request of group g and retries is
\* config gemini.max_retries; failed is the group at which the function gave
\* up (0 when none), requests the provider requests in order, each with its
\* group, the group's texts, the texts sent (contents=uncached_texts), the keys
\* the cache held when the group was looked up and the wait that preceded it
RECURSIVE GenerateFrom(_, _, _, _, _, _, _)
GenerateFrom(texts, c, attempts, retries, g, all_embeddings, requests) ==
  IF texts = <<>>
  THEN [embeddings |-> all_embeddings, cache |-> c, failed |-> 0, calls |-> Len(requests),
        requests |-> requests]
  ELSE LET n == IF Len(texts) < EmbedBatchSize THEN Len(texts) ELSE EmbedBatchSize
           grp == SubSeq(texts, 1, n)
           rest == SubSeq(texts, n + 1, Len(texts))
           lk == LookupGroup(grp, c, <<>>)
           uncached == {j \in 1..n : lk.batch_embeddings[j] = None}
           loop == RetryLoop(attempts[g], retries)
           uncached_indices == SelectSeq([j \in 1..n |-> j], LAMBDA j : j \in uncached)
           \* [embedding.values for embedding in response.embeddings]
           new_embeddings ==
             [k \in 1..(IF loop.outcome = "short" THEN Len(uncached_indices) - 1
                        ELSE Len(uncached_indices)) |-> EmbedOf(grp[uncached_indices[k]])]
           filled == FillGroup(lk.batch_embeddings, new_embeddings, uncached_indices)
           \* embedding_cache.put for the texts the zip reached
           put == [j \in 1..n |->
                     IF \E k \in 1..Len(new_embeddings) : uncached_indices[k] = j
                     THEN None ELSE EmbedOf(grp[j])]
           sent == [k \in 1..loop.calls |->
                      [group |-> g, batch |-> grp,
                       contents |-> UncachedTexts(grp, lk.batch_embeddings),
                       cached |-> Keys(c),
                       wait |-> IF k = 1 THEN 0 ELSE loop.waits[k - 1]]]
       IN IF uncached = {} \/ loop.outcome = "not_called"
          THEN GenerateFrom(rest, lk.cache, attempts, retries, g + 1,
                            all_embeddings \o lk.batch_embeddings, requests)
          ELSE IF loop.outcome = "gave_up"
          THEN [embeddings |-> all_embeddings, cache |-> lk.cache, failed |-> g,
                calls |-> Len(requests \o sent), requests |-> requests \o sent]
          ELSE GenerateFrom(rest, CacheNew(grp, put, lk.cache), attempts,
                            retries, g + 1, all_embeddings \o filled, requests \o sent)

\* EmbeddingAgent._generate_embeddings with the configured max_retries:
\* behaviour[g] is the number of consecutive provider calls of group g that raise
_generate_embeddings(texts, c, behaviour, g, all_embeddings) ==
  GenerateFrom(texts, c, [k \in DOMAIN behaviour |-> AttemptsOf(behaviour[k])], max_retries,
               g, all_embeddings, <<>>)

\* the most request groups a document has
MaxGroups == (MaxPieces + EmbedBatchSize - 1) \div EmbedBatchSize

\* what the provider can do with the request groups of one document
ProviderBehaviours == [1..MaxGroups -> 0..max_retries]

\* EmbeddingAgent.process: the document and the cache after the call, the
\* request group at which _generate_embeddings gave up (0 when it did not), the
\* number of requests sent to the provider, the requests themselves, and the
\* statistics counter the call
\* incremented (log_skip, log_error or log_success); pieces is what the splitter
\* makes of the document's text
EmbeddingProcessOn(doc, c, raises, behaviour, pieces) ==
  IF doc.content \in {NoContent, ""}
  THEN [doc |-> doc, cache |-> c, failed |-> 0, calls |-> 0, requests |-> <<>>, log |-> "skipped"]
  ELSE IF doc.processing_status = "failed"
  THEN [doc |-> doc, cache |-> c, failed |-> 0, calls |-> 0, requests |-> <<>>, log |-> "skipped"]
  ELSE IF raises
  THEN [doc |-> [doc EXCEPT !.processing_status = "failed",
                            !.errors = Append(@, "Embedding error")],
        cache |-> c, failed |-> 0, calls |-> 0, requests |-> <<>>, log |-> "failed"]
  ELSE LET chunks == ChunkObjects(pieces) IN
       IF chunks = <<>>
       THEN [doc |-> [doc EXCEPT !.errors = Append(@, "Chunking failed")], cache |-> c,
             failed |-> 0, calls |-> 0, requests |-> <<>>, log |-> "failed"]
       ELSE LET r == _generate_embeddings([i \in 1..Len(chunks) |-> chunks[i].text],
                                          c, behaviour, 1, <<>>)
                n == IF Len(r.embeddings) < Len(chunks) THEN Len(r.embeddings)
                     ELSE Len(chunks)
            IN IF r.embeddings # <<>>
               THEN [doc |-> [doc EXCEPT
                        !.chunks = [i \in 1..Len(chunks) |->
                                      IF i <= n
                                      THEN [chunks[i] EXCEPT !.embedding = r.embeddings[i]]
                                      ELSE chunks[i]],
                        !.embeddings = r.embeddings,
                        !.processing_status = "completed"],
                     cache |-> r.cache, failed |-> r.failed, calls |-> r.calls, requests |-> r.requests,
                     log |-> "processed"]
               ELSE [doc |-> [doc EXCEPT !.chunks = chunks,
                                         !.errors = Append(@, "Embedding generation failed")],
                     cache |-> r.cache, failed |-> r.failed, calls |-> r.calls, requests |-> r.requests,
                     log |-> "failed"]

\* EmbeddingAgent.process
EmbeddingProcess(doc, c, raises, behaviour) ==
  EmbeddingProcessOn(doc, c, raises, behaviour, text_chunks(doc.content, doc.file_path))

\* ----------------------------------------------------------- DatabaseAgent
\* metadata values: a string is the sequence of its characters, a number or a
\* boolean the characters of its literal, a list the sequence of its elements
StrVal(chars) == [kind |-> "str", v |-> chars]
ScalarKinds == {"str", "int", "float", "bool"}
ScalarValues ==
  {StrVal(<<"a">>), StrVal(<<>>), [kind |-> "int", v |-> <<"7">>],
   [kind |-> "float", v |-> <<"0", ".", "5">>], [kind |-> "bool", v |-> <<"T", "r", "u", "e">>]}
ListValues ==
  {[kind |-> "list", v |-> <<>>],
   [kind |-> "list", v |-> <<StrVal(<<"a">>)>>],
   [kind |-> "list", v |-> <<StrVal(<<"a">>), StrVal(<<"b">>)>>],
   [kind |-> "list", v |-> <<StrVal(<<"a">>), [kind |-> "int", v |-> <<"7">>]>>]}
NoneValue == [kind |-> "none", v |-> <<>>]
DictValue == [kind |-> "dict", v |-> <<>>]
MetaValues == ScalarValues \cup ListValues \cup {NoneValue, DictValue}
MetaKeys == 1..NumMetaKeys
Metadatas == UNION {[keys -> MetaValues] : keys \in SUBSET MetaKeys}

\* all(isinstance(v, str) for v in value)
AllStrings(list) == \A i \in 1..Len(list) : list[i].kind = "str"

\* ', '.join(value) for a list of strings
RECURSIVE Join(_)
Join(list) ==
  IF list = <<>> THEN <<>>
  ELSE IF Len(list) = 1 THEN list[1].v
  ELSE list[1].v \o <<",", " ">> \o Join(Tail(list))

\* str(value) for a value that is neither a scalar, a list nor None
Repr(value) == <<"{", "}">>

\* DatabaseAgent._flatten_metadata: the fields of the returned dictionary
FlatKeys(metadata) ==
  {k \in DOMAIN metadata :
     \/ metadata[k].kind \in ScalarKinds
     \/ metadata[k].kind = "list" /\ AllStrings(metadata[k].v)
     \/ metadata[k].kind \notin ScalarKinds \cup {"list", "none"}}

\* DatabaseAgent._flatten_metadata
_flatten_metadata(metadata) ==
  [k \in FlatKeys(metadata) |->
     IF metadata[k].kind \in ScalarKinds THEN metadata[k]
     ELSE IF metadata[k].kind = "list" THEN StrVal(Join(metadata[k].v))
     ELSE StrVal(Repr(metadata[k]))]

\* no call of _flatten_metadata yet
NoFlat == [called |-> FALSE, metadata |-> <<>>, result |-> <<>>]

\* the records collection.add receives for a document
RecordsOf(doc) ==
  {[source_file |-> doc.file_path, chunk_index |-> doc.chunks[i].chunk_index,
    text |-> doc.chunks[i].text, embedding |-> doc.chunks[i].embedding] :
     i \in 1..Len(doc.chunks)}

\* a storage stage that inserts the chunks that carry a vector and ignores the others
MutDatabaseStorePartial(doc, st, raises) ==
  IF doc.chunks = <<>> \/ doc.embeddings = <<>> \/ doc.processing_status = "failed"
  THEN [doc |-> doc, store |-> st, log |-> "skipped"]
  ELSE [doc |-> [doc EXCEPT !.processing_status = "completed"],
        store |-> st (+) SetToBag(RecordsOf(doc)), log |-> "processed"]

\* a storage stage that does not skip a failed document
MutDatabaseStoresFailed(doc, st, raises) ==
  IF doc.processing_status # "failed" /\ (doc.chunks = <<>> \/ doc.embeddings = <<>>)
  THEN [doc |-> doc, store |-> st, log |-> "skipped"]
  ELSE IF raises \/ \E i \in 1..Len(doc.chunks) : doc.chunks[i].embedding = None
  THEN [doc |-> [doc EXCEPT !.processing_status = "failed",
                            !.errors = Append(@, "Database error")],
        store |-> st, log |-> "failed"]
  ELSE [doc |-> [doc EXCEPT !.chunks = [i \in 1..Len(doc.chunks) |->
                                          [doc.chunks[i] EXCEPT !.db_id = TRUE]],
                            !.processing_status = "completed"],
        store |-> st (+) SetToBag(RecordsOf(doc)), log |-> "processed"]

\* DatabaseAgent.process: the document and the collection after the call, and
\* the statistics counter the call incremented; a chunk without an 'embedding'
\* key raises KeyError before collection.add
DatabaseProcess(doc, st, raises) ==
  IF doc.chunks = <<>> \/ doc.embeddings = <<>>
  THEN [doc |-> doc, store |-> st, log |-> "skipped"]
  ELSE IF doc.processing_status = "failed" THEN [doc |-> doc, store |-> st, log |-> "skipped"]
  ELSE IF raises \/ \E i \in 1..Len(doc.chunks) : doc.chunks[i].embedding = None
  THEN [doc |-> [doc EXCEPT !.processing_status = "failed",
                            !.errors = Append(@, "Database error")],
        store |-> st, log |-> "failed"]
  ELSE [doc |-> [doc EXCEPT !.chunks = [i \in 1..Len(doc.chunks) |->
                                          [doc.chunks[i] EXCEPT !.db_id = TRUE]],
                            !.processing_status = "completed"],
        store |-> st (+) SetToBag(RecordsOf(doc)), log |-> "processed"]

\* ---------------------------------------------------------- Orchestrator
\* the memory of a process that is not running
IdleProc ==
  /\ pc' = "idle"
  /\ parallel' = FALSE
  /\ processed_hashes' = {}
  /\ all_documents' = <<>>
  /\ processed_files' = <<>>
  /\ start_batch' = 0
  /\ batch_idx' = 0
  /\ batch' = <<>>
  /\ todo' = {}
  /\ processed' = <<>>
  /\ cache' = <<>>

NoCall == [n |-> 0, before |-> NewDoc(1), after |-> NewDoc(1), failed |-> 0,
           storeBefore |-> EmptyBag, cacheBefore |-> <<>>, requests |-> <<>>]
NoStep == [stage |-> "none", raised |-> FALSE, before |-> NewDoc(1), after |-> NewDoc(1),
           storeBefore |-> EmptyBag, cacheBefore |-> <<>>, calls |-> 0, log |-> "none",
           extracted |-> NewDoc(1), ocr_called |-> FALSE]
NoChunker == [text |-> [len |-> 0, para |-> {}, sent |-> {}], slices |-> <<>>]

NoScan == [dir |-> <<>>, pos |-> 0, loaded |-> {}, returned |-> <<>>, saved |-> {}]
NoRun == [resume |-> FALSE, loaded |-> FALSE, completed |-> {}, discovered |-> {}, kept |-> {}]
NonePassed == [extract |-> {}, embed |-> {}, store |-> {}]

\* a slice that runs one document into the next batch
MutBatchAtOverlaps(docs, idx) ==
  SubSeq(docs, idx + 1, IF idx + StreamBatchSize + 1 < Len(docs)
                        THEN idx + StreamBatchSize + 1 ELSE Len(docs))

\* all_documents[batch_idx:batch_idx + stream_batch_size]
BatchAt(docs, idx) ==
  SubSeq(docs, idx + 1, IF idx + StreamBatchSize < Len(docs) THEN idx + StreamBatchSize
                        ELSE Len(docs))

\* total_batches
TotalBatches(docs) == (Len(docs) + StreamBatchSize - 1) \div StreamBatchSize

\* a batch number that starts from 1 again in a resumed run
MutBatchNumRestarts == (batch_idx \div StreamBatchSize) + 1

\* current_batch_num
CurrentBatchNum == (batch_idx \div StreamBatchSize) + 1 + start_batch

\* the document a stage runner collects next: in task completion order for the
\* pooled runners (_parallel_extract, _parallel_store), else in list order
Pick == IF parallel /\ pc \in {"extract", "store"} THEN todo ELSE {Min(todo)}

\* a stage runner that returns its output list as soon as a document failed
MutStageStepAbortsOnFailure(i, out, next) ==
  IF todo = {i} \/ out[Len(out)].processing_status = "failed"
  THEN /\ batch' = out
       /\ processed' = <<>>
       /\ todo' = IF next \in {"embed", "store"} THEN 1..Len(out) ELSE {}
       /\ pc' = next
  ELSE /\ processed' = out
       /\ todo' = todo \ {i}
       /\ UNCHANGED <<batch, pc>>

\* a stage runner that, for a document collected out of list order, overwrites
\* the last element of its output list instead of appending
MutStageStepOverwrites(i, out, next) ==
  LET kept == IF i = Min(todo) THEN out
              ELSE SubSeq(out, 1, Len(out) - 2) \o <<out[Len(out)]>>
  IN IF todo = {i}
     THEN /\ batch' = kept
          /\ processed' = <<>>
          /\ todo' = IF next \in {"embed", "store"} THEN 1..Len(kept) ELSE {}
          /\ pc' = next
     ELSE /\ processed' = kept
          /\ todo' = todo \ {i}
          /\ UNCHANGED <<batch, pc>>

\* a stage runner appends document i's result to its output list and returns
\* the list once every document is collected
StageStep(i, out, next) ==
  IF todo = {i}
  THEN /\ batch' = out
       /\ processed' = <<>>
       /\ todo' = IF next \in {"embed", "store"} THEN 1..Len(out) ELSE {}
       /\ pc' = next
  ELSE /\ processed' = out
       /\ todo' = todo \ {i}
       /\ UNCHANGED <<batch, pc>>

\* ------------------------------------------------------------ MemoryMonitor
\* Orchestrator.__init__: config 'memory.max_percent', default
max_memory_percent == 80

\* psutil.virtual_memory().percent as check_memory_usage may read it: at the
\* limit and above it
MemoryReadings == {max_memory_percent, max_memory_percent + 1}

\* MemoryMonitor.check_memory_usage: whether the usage is within the limit, and
\* the collection passes it ran
check_memory_usage(system_percent, force_gc) ==
  IF system_percent > max_memory_percent
  THEN [ok |-> FALSE, gc_passes |-> IF force_gc THEN 1 ELSE 0]
  ELSE [ok |-> TRUE, gc_passes |-> 0]

\* MemoryMonitor.clear_memory: the collection passes it runs
clear_memory(aggressive) == IF aggressive THEN 3 ELSE 1

NoMemory == [system_percent |-> 0, ok |-> TRUE, check_passes |-> 0, clear_passes |-> 0]

\* Orchestrator.process, "Check memory and force cleanup if needed"
CheckAndClear(system_percent) ==
  LET chk == check_memory_usage(system_percent, TRUE)
  IN [system_percent |-> system_percent, ok |-> chk.ok, check_passes |-> chk.gc_passes,
      clear_passes |-> IF ~chk.ok THEN clear_memory(TRUE) ELSE 0]

\* the loop of _simple_chunk before the plaintext file's text is known
NoLoop == [text |-> [len |-> 0, para |-> {}, sent |-> {}], start |-> 0, tick |-> 0,
           state |-> "idle"]

\* a step in which something fails uses up one of the failures of the history
Fault(failed) ==
  /\ failed => faults < MaxFaults
  /\ faults' = faults + (IF failed THEN 1 ELSE 0)

PipeInit ==
  /\ skip_duplicates \in BOOLEAN
  /\ store = EmptyBag
  /\ hashFile = [exists |-> FALSE, hashes |-> {}]
  /\ checkpointFile = NoCheckpoint
  /\ pc = "idle"
  /\ parallel = FALSE
  /\ processed_hashes = {}
  /\ all_documents = <<>>
  /\ processed_files = <<>>
  /\ start_batch = 0
  /\ batch_idx = 0
  /\ batch = <<>>
  /\ todo = {}
  /\ processed = <<>>
  /\ runs = 0
  /\ runInfo = NoRun
  /\ passed = NonePassed
  /\ ends = <<>>
  /\ faults = 0
  /\ call = NoCall
  /\ step = NoStep
  /\ scan = NoScan
  /\ memory = NoMemory
  /\ chunkLoop = NoLoop
  /\ chunker = NoChunker
  /\ flat = NoFlat
  /\ retryLoop = NoRetry
  /\ pool = NoPool

pipeVars == <<skip_duplicates, diskVars, pc, parallel, processed_hashes, all_documents,
              processed_files, start_batch, batch_idx, batch, todo, processed, pipeHist, step, scan,
              chunker, flat, retryLoop, pool, memory, chunkLoop>>

\* Orchestrator.__init__ (load_cache, load_processed_hashes) and Orchestrator.process
\* up to the first batch: ingestion, checkpoint load, resume filter
StartRun ==
  /\ pc = "idle"
  /\ runs < MaxRuns
  /\ \E resume \in BOOLEAN, par \in BOOLEAN :
       LET ing == Ingest(Discovered, LoadHashes(hashFile), <<>>, skip_duplicates)
           ckpt == IF resume THEN load_checkpoint(checkpointFile) ELSE NoCheckpoint
           loaded == ckpt.state = "ok"
           docs == IF loaded THEN ResumeFilter(ing.documents, ckpt.processed_files)
                   ELSE ing.documents
       IN /\ runs' = runs + 1
          /\ passed' = NonePassed
          /\ IF ing.documents = <<>>
             THEN /\ IdleProc
                  /\ ends' = Append(ends, "empty")
                  /\ runInfo' = [NoRun EXCEPT !.resume = resume,
                                               !.completed = Range(load_checkpoint(checkpointFile).processed_files)]
             ELSE /\ cache' = LoadCacheInto(<<>>, cacheFile)
                  /\ parallel' = par
                  /\ processed_hashes' = ing.processed_hashes
                  /\ all_documents' = docs
                  /\ processed_files' = ckpt.processed_files
                  /\ start_batch' = ckpt.current_batch
                  /\ batch_idx' = 0
                  /\ batch' = BatchAt(docs, 0)
                  /\ todo' = 1..Len(BatchAt(docs, 0))
                  /\ processed' = <<>>
                  /\ pc' = IF docs = <<>> THEN "finalize" ELSE "extract"
                  /\ ends' = ends
                  /\ runInfo' = [resume |-> resume, loaded |-> loaded,
                                 completed |-> Range(load_checkpoint(checkpointFile).processed_files),
                                 discovered |-> {ing.documents[i].file_path :
                                                   i \in 1..Len(ing.documents)},
                                 kept |-> {docs[i].file_path : i \in 1..Len(docs)}]
  /\ UNCHANGED <<cacheFile, cacheHist, call, retryLoop, pool, flat, memory, chunkLoop, chunker, scan, step, skip_duplicates, diskVars, faults>>

\* the document i of the batch after the extraction stage's transform
\* (_sequential_extract / _parallel_extract), recorded in step
ExtractDoc(i, outcome) ==
  LET doc == ExtractOne(batch[i], outcome) IN
  /\ StageStep(i, Append(processed, doc), "embed")
  /\ passed' = [passed EXCEPT !.extract = @ \cup {batch[i].file_path}]
  /\ step' = [NoStep EXCEPT !.stage = "extract", !.raised = (outcome = "raise"),
                            !.before = batch[i], !.after = doc,
                            !.storeBefore = store, !.cacheBefore = cache,
                            !.extracted = ExtractTrace(batch[i], outcome).extracted,
                            !.ocr_called = ExtractTrace(batch[i], outcome).ocr_called]

\* the document i of the batch after embedding_agent.process; an exception is
\* raised only inside the try block, which a skipped document never enters
EmbedDoc(i, raises, behaviour) ==
  LET r == EmbeddingProcess(batch[i], cache, raises, behaviour) IN
  /\ StageStep(i, Append(processed, r.doc), "store")
  /\ cache' = r.cache
  /\ passed' = [passed EXCEPT !.embed = @ \cup {batch[i].file_path}]
  /\ step' = [stage |-> "embed", raised |-> (raises /\ r.log # "skipped"),
              before |-> batch[i], after |-> r.doc, storeBefore |-> store,
              cacheBefore |-> cache, calls |-> r.calls, log |-> r.log,
              extracted |-> batch[i], ocr_called |-> FALSE]

\* the document i of the batch after database_agent.process
StoreDoc(i, raises) ==
  LET r == DatabaseProcess(batch[i], store, raises) IN
  /\ StageStep(i, Append(processed, r.doc), "save_state")
  /\ store' = r.store
  /\ passed' = [passed EXCEPT !.store = @ \cup {batch[i].file_path}]
  /\ step' = [stage |-> "store", raised |-> (raises /\ r.log # "skipped"),
              before |-> batch[i], after |-> r.doc, storeBefore |-> store,
              cacheBefore |-> cache, calls |-> 0, log |-> r.log,
              extracted |-> batch[i], ocr_called |-> FALSE]

\* the extraction stage runner collects one document
ExtractStep ==
  /\ pc = "extract"
  /\ \E i \in Pick : \E outcome \in ExtractOutcomes(batch[i].file_type) :
       /\ ExtractDoc(i, outcome)
       /\ Fault(outcome # "text")
  /\ UNCHANGED <<cacheVars, cacheHist, call, retryLoop, pool, flat, memory, chunkLoop, chunker, scan, skip_duplicates, diskVars, parallel,
                 processed_hashes, all_documents, processed_files, start_batch,
                 batch_idx, runs, runInfo, ends>>

\* the embedding stage runner (_sequential_embed / _parallel_embed) handles one document
EmbedStep ==
  /\ pc = "embed"
  /\ \E i \in Pick : \E raises \in BOOLEAN, behaviour \in ProviderBehaviours :
       /\ EmbedDoc(i, raises, behaviour)
       /\ Fault(raises \/ \E g \in 1..MaxGroups : behaviour[g] # 0)
  /\ UNCHANGED <<cacheFile, cacheHist, call, retryLoop, pool, flat, memory, chunkLoop, chunker, scan, skip_duplicates, diskVars, parallel,
                 processed_hashes, all_documents, processed_files, start_batch,
                 batch_idx, runs, runInfo, ends>>

\* the storage stage runner collects one document
StoreStep ==
  /\ pc = "store"
  /\ \E i \in Pick : \E raises \in BOOLEAN :
       /\ StoreDoc(i, raises)
       /\ Fault(raises)
  /\ UNCHANGED <<cacheVars, cacheHist, call, retryLoop, pool, flat, memory, chunkLoop, chunker, scan, skip_duplicates, hashFile, checkpointFile, parallel,
                 processed_hashes, all_documents, processed_files, start_batch,
                 batch_idx, runs, runInfo, ends>>

\* Orchestrator._process_batch, "Save state after each batch":
\* embedding_agent.save_cache() and ingestion_agent.save_processed_hashes()
SaveState ==
  /\ pc = "save_state"
  /\ \E o1 \in SaveOutcomes, o2 \in SaveOutcomes :
       /\ cacheFile' = SaveCacheFile(cache, cacheFile, o1)
       /\ hashFile' = SaveHashFile(processed_hashes, hashFile, o2)
       /\ Fault(o1 # "ok" \/ o2 # "ok")
  /\ pc' = "checkpoint"
  /\ UNCHANGED <<cache, cacheHist, call, retryLoop, pool, flat, memory, chunkLoop, chunker, scan, step, skip_duplicates, store, checkpointFile, parallel,
                 processed_hashes, all_documents, processed_files, start_batch,
                 batch_idx, batch, todo, processed, runs, runInfo, passed, ends>>

\* the keys of the batch's documents with status completed, in batch order
CompletedKeys(docs) ==
  LET done == SelectSeq(docs, LAMBDA doc : doc.processing_status = "completed")
  IN [i \in 1..Len(done) |-> done[i].file_path]

\* a batch loop that starts the next batch right after the checkpoint save,
\* without releasing the memory of the batch
MutSaveCheckpointSkipsRelease ==
  /\ pc = "checkpoint"
  /\ \E outcome \in SaveOutcomes :
       /\ processed_files' = processed_files \o CompletedKeys(batch)
       /\ checkpointFile' = SaveCheckpointFile(processed_files', CurrentBatchNum,
                                               TotalBatches(all_documents) + start_batch,
                                               checkpointFile, outcome)
       /\ Fault(outcome # "ok")
  /\ batch_idx' = batch_idx + StreamBatchSize
  /\ batch' = BatchAt(all_documents, batch_idx')
  /\ todo' = 1..Len(batch')
  /\ pc' = IF batch_idx' < Len(all_documents) THEN "extract" ELSE "finalize"
  /\ UNCHANGED <<cacheVars, cacheHist, call, retryLoop, pool, flat, memory, chunkLoop, chunker, scan, step, skip_duplicates, store,
                 hashFile, parallel, processed_hashes, all_documents, start_batch,
                 processed, runs, runInfo, passed, ends>>

\* Orchestrator.process, "Save checkpoint after successful batch"
SaveCheckpoint ==
  /\ pc = "checkpoint"
  /\ \E outcome \in SaveOutcomes :
       /\ processed_files' = processed_files \o CompletedKeys(batch)
       /\ checkpointFile' = SaveCheckpointFile(processed_files', CurrentBatchNum,
                                               TotalBatches(all_documents) + start_batch,
                                               checkpointFile, outcome)
       /\ Fault(outcome # "ok")
  /\ pc' = "release"
  /\ UNCHANGED <<cacheVars, cacheHist, call, retryLoop, pool, flat, memory, chunkLoop, chunker, scan, step, skip_duplicates, store, hashFile, parallel,
                 processed_hashes, all_documents, start_batch, batch_idx, batch, todo,
                 processed, runs, runInfo, passed, ends>>

\* Orchestrator.process, "Clear memory after batch", and the step of the batch loop
ReleaseMemory ==
  /\ pc = "release"
  /\ \E system_percent \in MemoryReadings : memory' = CheckAndClear(system_percent)
  /\ batch_idx' = batch_idx + StreamBatchSize
  /\ IF batch_idx' < Len(all_documents)
     THEN /\ batch' = BatchAt(all_documents, batch_idx')
          /\ todo' = 1..Len(batch')
          /\ pc' = "extract"
     ELSE /\ batch' = <<>>
          /\ todo' = {}
          /\ pc' = "finalize"
  /\ UNCHANGED <<cacheVars, cacheHist, call, retryLoop, pool, flat, chunkLoop, chunker, scan, step, skip_duplicates, diskVars, parallel,
                 processed_hashes, all_documents, processed_files, start_batch,
                 processed, pipeHist>>

\* Orchestrator.process, "Cleanup and Save State": _cleanup_final() and
\* checkpoint_manager.clear_checkpoint(), then the process returns
Finalize ==
  /\ pc = "finalize"
  /\ \E o1 \in SaveOutcomes, o2 \in SaveOutcomes, cleared \in BOOLEAN :
       /\ cacheFile' = SaveCacheFile(cache, cacheFile, o1)
       /\ hashFile' = SaveHashFile(processed_hashes, hashFile, o2)
       /\ checkpointFile' = clear_checkpoint(checkpointFile, cleared)
       /\ Fault(o1 # "ok" \/ o2 # "ok" \/ ~cleared)
       /\ ends' = Append(ends, IF cleared THEN "completed" ELSE "completed_unlink_failed")
  /\ IdleProc
  /\ UNCHANGED <<cacheHist, call, retryLoop, pool, flat, memory, chunkLoop, chunker, scan, step, skip_duplicates, store, runs, runInfo, passed>>

\* the checkpoint the coordinator writes after the current batch
NextCheckpoint ==
  SaveCheckpointFile(processed_files \o CompletedKeys(batch), CurrentBatchNum,
                     TotalBatches(all_documents) + start_batch, checkpointFile, "ok")

\* the process is killed while save_checkpoint is writing the file
CrashInSaveCheckpoint ==
  /\ pc = "checkpoint"
  /\ checkpointFile' = TornCheckpoint
  /\ IdleProc
  /\ ends' = Append(ends, "crash_in_save_checkpoint")
  /\ UNCHANGED <<cacheFile, cacheHist, call, retryLoop, pool, flat, memory, chunkLoop, chunker, scan, step, skip_duplicates, store, hashFile, runs,
                 runInfo, passed, faults>>

\* an interrupt handler that saves a checkpoint of the unfinished batch
MutInterruptSavesCheckpoint ==
  /\ pc # "idle"
  /\ checkpointFile' = SaveCheckpointFile(processed_files \o CompletedKeys(processed),
                                          CurrentBatchNum,
                                          TotalBatches(all_documents) + start_batch,
                                          checkpointFile, "ok")
  /\ IdleProc
  /\ ends' = Append(ends, "mid_batch")
  /\ UNCHANGED <<cacheFile, cacheHist, call, retryLoop, pool, flat, memory, chunkLoop, chunker, scan, step, skip_duplicates, store,
                 hashFile, runs, runInfo, passed, faults>>

\* the process is interrupted (KeyboardInterrupt) or killed: its memory is lost,
\* the files and the vector store stay as they are
Interrupt ==
  /\ pc # "idle"
  /\ IdleProc
  /\ ends' = Append(ends, IF pc = "release" /\ batch_idx + StreamBatchSize < Len(all_documents)
                          THEN "after_checkpoint" ELSE "mid_batch")
  /\ UNCHANGED <<cacheFile, cacheHist, call, retryLoop, pool, flat, memory, chunkLoop, chunker, scan, step, skip_duplicates, diskVars, runs, runInfo, passed, faults>>

\* ------------------------------------------------- history of cache accesses
\* the access order after key was accessed, restricted to the keys still cached
Touch(order, key, c) ==
  LET without == SelectSeq(order, LAMBDA k : k # key)
  IN SelectSeq(Append(without, key), LAMBDA k : k \in Keys(c))

RECURSIVE TouchAll(_, _, _)
TouchAll(order, items, c) ==
  IF items = <<>> THEN SelectSeq(order, LAMBDA k : k \in Keys(c))
  ELSE TouchAll(SelectSeq(order, LAMBDA k : k # items[1][1]) \o <<items[1][1]>>, Tail(items), c)

\* the last written values after put(key, value), restricted to the keys still cached
Written(w, key, value, c) ==
  [k \in Keys(c) |-> IF k = key THEN value ELSE w[k]]

RECURSIVE WrittenAll(_, _, _)
WrittenAll(w, items, c) ==
  IF items = <<>> THEN [k \in Keys(c) |-> w[k]]
  ELSE WrittenAll([k \in DOMAIN w \cup {items[1][1]} |->
                     IF k = items[1][1] THEN items[1][2] ELSE w[k]], Tail(items), c)

NoOp == [op |-> "init", key |-> NoKey, value |-> None, result |-> None,
         before |-> <<>>, order |-> <<>>]

\* ------------------------------------------------------ cache specification
CacheInit ==
  /\ PipeInit
  /\ skip_duplicates = TRUE
  /\ cache = <<>>
  /\ cacheFile = [state |-> "absent", data |-> <<>>]
  /\ lastOp = NoOp
  /\ accessOrder = <<>>
  /\ lastWritten = <<>>

\* LRUCache.get(key)
CacheGet ==
  \E key \in CacheKeys :
    LET r == LRUGet(cache, key) IN
    /\ cache' = r.cache
    /\ lastOp' = [op |-> "get", key |-> key, value |-> None, result |-> r.result,
                  before |-> cache, order |-> accessOrder]
    /\ accessOrder' = IF key \in Keys(cache) THEN Touch(accessOrder, key, r.cache)
                      ELSE accessOrder
    /\ UNCHANGED <<cacheFile, lastWritten, pipeVars, call>>

\* LRUCache.put(key, value)
CachePut ==
  \E key \in CacheKeys, value \in Vectors :
    LET c1 == LRUPut(cache, key, value) IN
    /\ cache' = c1
    /\ lastOp' = [op |-> "put", key |-> key, value |-> value, result |-> None,
                  before |-> cache, order |-> accessOrder]
    /\ accessOrder' = Touch(accessOrder, key, c1)
    /\ lastWritten' = Written(lastWritten, key, value, c1)
    /\ UNCHANGED <<cacheFile, pipeVars, call>>

\* LRUCache.clear()
CacheClear ==
  /\ cache' = <<>>
  /\ lastOp' = [NoOp EXCEPT !.op = "clear", !.before = cache, !.order = accessOrder]
  /\ accessOrder' = <<>>
  /\ lastWritten' = <<>>
  /\ UNCHANGED <<cacheFile, pipeVars, call>>

\* EmbeddingAgent.save_cache()
SaveCache ==
  \E outcome \in SaveOutcomes :
    /\ cacheFile' = SaveCacheFile(cache, cacheFile, outcome)
    /\ lastOp' = [NoOp EXCEPT !.op = IF outcome = "ok" THEN "save" ELSE "save_failed",
                              !.before = cache, !.order = accessOrder]
    /\ UNCHANGED <<cache, accessOrder, lastWritten, pipeVars, call>>

\* EmbeddingAgent.load_cache() into the cache as it is
LoadCache ==
  LET c1 == LoadCacheInto(cache, cacheFile) IN
  /\ cache' = c1
  /\ lastOp' = [NoOp EXCEPT !.op = "load", !.before = cache, !.order = accessOrder]
  /\ accessOrder' = IF cacheFile.state = "ok"
                    THEN TouchAll(accessOrder, cacheFile.data, c1) ELSE accessOrder
  /\ lastWritten' = IF cacheFile.state = "ok"
                    THEN WrittenAll(lastWritten, cacheFile.data, c1) ELSE lastWritten
  /\ UNCHANGED <<cacheFile, pipeVars, call>>

\* EmbeddingAgent.__init__ followed by load_cache(), as in Orchestrator.__init__:
\* a fresh LRUCache of the configured capacity is filled from the file
FreshLoadCache ==
  LET c1 == LoadCacheInto(<<>>, cacheFile) IN
  /\ cache' = c1
  /\ lastOp' = [NoOp EXCEPT !.op = "fresh_load", !.before = <<>>, !.order = <<>>]
  /\ accessOrder' = IF cacheFile.state = "ok"
                    THEN TouchAll(<<>>, cacheFile.data, c1) ELSE <<>>
  /\ lastWritten' = IF cacheFile.state = "ok"
                    THEN WrittenAll(<<>>, cacheFile.data, c1) ELSE <<>>
  /\ UNCHANGED <<cacheFile, pipeVars, call>>

CacheNext ==
  \/ CacheGet
  \/ CachePut
  \/ CacheClear
  \/ SaveCache
  \/ LoadCache
  \/ FreshLoadCache

SpecCache == CacheInit /\ [][CacheNext]_vars

\* ----------------------------------- embedding and storage of one document
\* the embedding and storage stages on their own: documents come out of the
\* extraction stage and go through EmbeddingAgent.process and DatabaseAgent.process
EmbedInit ==
  /\ PipeInit
  /\ skip_duplicates = TRUE
  /\ cache = <<>>
  /\ cacheFile = [state |-> "absent", data |-> <<>>]
  /\ lastOp = NoOp
  /\ accessOrder = <<>>
  /\ lastWritten = <<>>

\* embedding_agent.process(doc) for a document as extraction left it
EmbedCall ==
  /\ pc = "idle"
  /\ call.n < MaxCalls
  /\ \E d \in Docs : \E outcome \in ExtractOutcomes(FileTypeOf(d)) :
     \E raises \in BOOLEAN, behaviour \in ProviderBehaviours :
       LET doc == ExtractOne(NewDoc(d), outcome)
           r == EmbeddingProcess(doc, cache, raises, behaviour)
       IN /\ batch' = <<r.doc>>
          /\ cache' = r.cache
          /\ call' = [n |-> call.n + 1, before |-> doc, after |-> r.doc,
                      failed |-> r.failed, storeBefore |-> store, cacheBefore |-> cache,
                      requests |-> r.requests]
  /\ pc' = "store"
  /\ UNCHANGED <<cacheFile, cacheHist, retryLoop, pool, flat, memory, chunkLoop, chunker, step, scan, skip_duplicates, diskVars, parallel, processed_hashes,
                 all_documents, processed_files, start_batch, batch_idx, todo, processed,
                 pipeHist>>

\* database_agent.process(doc) for the document the embedding stage returned
StoreCall ==
  /\ pc = "store"
  /\ \E raises \in BOOLEAN :
       LET r == DatabaseProcess(batch[1], store, raises)
       IN /\ batch' = <<r.doc>>
          /\ store' = r.store
  /\ pc' = "idle"
  /\ UNCHANGED <<cacheVars, cacheHist, call, retryLoop, pool, flat, memory, chunkLoop, chunker, scan, step, skip_duplicates, hashFile, checkpointFile, parallel,
                 processed_hashes, all_documents, processed_files, start_batch, batch_idx,
                 todo, processed, pipeHist>>

EmbedNext ==
  \/ EmbedCall
  \/ StoreCall

SpecEmbed == EmbedInit /\ [][EmbedNext]_vars

\* ------------------------------ one plaintext document, character by character
\* a plaintext file
PlainDoc == CHOOSE d \in Docs : FileTypeOf(d) = "txt"

\* embedding_agent.process(doc) for a plaintext document whose text the
\* fallback splitter _simple_chunk cuts
ScenarioEmbed ==
  /\ pc = "idle"
  /\ call.n < MaxCalls
  /\ \E text \in ScenarioTexts : \E raises \in BOOLEAN, behaviour \in ProviderBehaviours :
       LET doc == ExtractOne(NewDoc(PlainDoc), "text")
           slices == _simple_chunk(text, chunk_size)
           r == EmbeddingProcessOn(doc, cache, raises, behaviour, PiecesOf(text, slices))
       IN /\ batch' = <<r.doc>>
          /\ cache' = r.cache
          /\ chunker' = [text |-> text, slices |-> slices]
          /\ call' = [n |-> call.n + 1, before |-> doc, after |-> r.doc,
                      failed |-> r.failed, storeBefore |-> store, cacheBefore |-> cache,
                      requests |-> r.requests]
  /\ pc' = "store"
  /\ UNCHANGED <<cacheFile, cacheHist, retryLoop, pool, flat, memory, chunkLoop, step, scan, skip_duplicates, diskVars, parallel,
                 processed_hashes, all_documents, processed_files, start_batch, batch_idx,
                 todo, processed, pipeHist>>

ScenarioNext ==
  \/ ScenarioEmbed
  \/ StoreCall

SpecScenario == EmbedInit /\ [][ScenarioNext]_vars

\* ------------------------------------------- the metadata of one chunk
\* _flatten_metadata(chunk['metadata']) for one chunk (DatabaseAgent.process)
FlattenCall ==
  /\ \E metadata \in Metadatas :
       flat' = [called |-> TRUE, metadata |-> metadata, result |-> _flatten_metadata(metadata)]
  /\ UNCHANGED <<cacheVars, cacheHist, call, memory, chunkLoop, retryLoop, pool, chunker, scan, step, skip_duplicates, diskVars,
                 procVars, pipeHist>>

FlattenNext ==
  \/ FlattenCall

SpecFlatten == EmbedInit /\ [][FlattenNext]_vars

\* ------------------------------------- _generate_embeddings and its provider
\* the chunk texts of a document
TextsOf(d) == LET chunks == _chunk_text("text", d) IN [i \in 1..Len(chunks) |-> chunks[i].text]

\* an earlier call of _generate_embeddings has cached the vector of a text
\* (embedding_cache.put(text_hash, embedding))
EarlierPut ==
  /\ ~retryLoop.called
  /\ \E text \in Texts : cache' = LRUPut(cache, _hash_text(text), EmbedOf(text))
  /\ UNCHANGED <<cacheFile, cacheHist, call, retryLoop, pool, flat, memory, chunkLoop, chunker, scan, step,
                 skip_duplicates, diskVars, procVars, pipeHist>>

\* the lists of texts _generate_embeddings is called with: the chunk texts of
\* each document, and those of a document whose chunks hold every text once
RetryTexts == {TextsOf(d) : d \in Docs} \cup {[i \in 1..NumTexts |-> i]}

\* _generate_embeddings(texts) for the chunk texts of one document, with a
\* provider that answers or raises at each request and a configured max_retries
RetryCall ==
  /\ ~retryLoop.called
  /\ \E texts \in RetryTexts, retries \in 0..MaxRetries,
        attempts \in [1..MaxGroups -> [1..MaxRetries -> ProviderAnswers]] :
       LET r == GenerateFrom(texts, cache, attempts, retries, 1, <<>>, <<>>)
       IN /\ retryLoop' = [called |-> TRUE, texts |-> texts, attempts |-> attempts,
                           max_retries |-> retries, cacheBefore |-> cache, result |-> r]
          /\ cache' = r.cache
  /\ UNCHANGED <<cacheFile, cacheHist, call, pool, flat, memory, chunkLoop, chunker, scan, step, skip_duplicates, diskVars,
                 procVars, pipeHist>>

RetryNext ==
  \/ EarlierPut
  \/ RetryCall

SpecRetry == EmbedInit /\ [][RetryNext]_vars

\* ------------------------------------ one batch through the stage runners
\* Orchestrator._process_batch on a batch holding every file of the directory,
\* in sequential or in concurrent mode, with any number of failing documents
StagesInit ==
  /\ PipeInit
  /\ skip_duplicates = TRUE
  /\ cache = <<>>
  /\ cacheFile = [state |-> "absent", data |-> <<>>]
  /\ lastOp = NoOp
  /\ accessOrder = <<>>
  /\ lastWritten = <<>>

\* _process_batch is entered
StagesStart ==
  /\ pc = "idle"
  /\ runs = 0
  /\ runs' = 1
  /\ parallel' \in BOOLEAN
  /\ all_documents' = [i \in 1..NumDocs |-> NewDoc(Discovered[i])]
  /\ batch' = all_documents'
  /\ todo' = 1..NumDocs
  /\ pc' = "extract"
  /\ UNCHANGED <<cacheVars, cacheHist, call, retryLoop, pool, flat, memory, chunkLoop, chunker, scan, step, skip_duplicates, diskVars, processed_hashes,
                 processed_files, start_batch, batch_idx, processed, runInfo, passed, ends,
                 faults>>

StagesExtract ==
  /\ pc = "extract"
  /\ \E i \in Pick : \E outcome \in ExtractOutcomes(batch[i].file_type) : ExtractDoc(i, outcome)
  /\ UNCHANGED <<cacheVars, cacheHist, call, retryLoop, pool, flat, memory, chunkLoop, chunker, scan, skip_duplicates, diskVars, parallel,
                 processed_hashes, all_documents, processed_files, start_batch,
                 batch_idx, runs, runInfo, ends, faults>>

StagesEmbed ==
  /\ pc = "embed"
  /\ \E i \in Pick : \E raises \in BOOLEAN, behaviour \in ProviderBehaviours :
       EmbedDoc(i, raises, behaviour)
  /\ UNCHANGED <<cacheFile, cacheHist, call, retryLoop, pool, flat, memory, chunkLoop, chunker, scan, skip_duplicates, diskVars, parallel,
                 processed_hashes, all_documents, processed_files, start_batch,
                 batch_idx, runs, runInfo, ends, faults>>

StagesStore ==
  /\ pc = "store"
  /\ \E i \in Pick : \E raises \in BOOLEAN : StoreDoc(i, raises)
  /\ UNCHANGED <<cacheVars, cacheHist, call, retryLoop, pool, flat, memory, chunkLoop, chunker, scan, skip_duplicates, hashFile, checkpointFile, parallel,
                 processed_hashes, all_documents, processed_files, start_batch,
                 batch_idx, runs, runInfo, ends, faults>>

StagesNext ==
  \/ StagesStart
  \/ StagesExtract
  \/ StagesEmbed
  \/ StagesStore

SpecStages == StagesInit /\ [][StagesNext]_vars

\* ------------------------------------------------- ingestion on its own
\* runs of the ingestion agent over directories that may hold copies of a file:
\* load_processed_hashes at start, _process_file on every file, and
\* save_processed_hashes when the run has processed its batches
IngestInit ==
  /\ PipeInit
  /\ cache = <<>>
  /\ cacheFile = [state |-> "absent", data |-> <<>>]
  /\ lastOp = NoOp
  /\ accessOrder = <<>>
  /\ lastWritten = <<>>

\* the directory listings: files of supported format, each path once
Listings ==
  UNION {{l \in [1..n -> Files] : \A i, j \in 1..n : l[i] = l[j] => i = j} : n \in 1..MaxScan}

\* Orchestrator.__init__ (load_processed_hashes) and the start of the scan
IngestStart ==
  /\ pc = "idle"
  /\ runs < MaxRuns
  /\ runs' = runs + 1
  /\ \E dir \in Listings :
       scan' = [scan EXCEPT !.dir = dir, !.pos = 0, !.loaded = LoadHashes(hashFile),
                            !.returned = <<>>]
  /\ processed_hashes' = LoadHashes(hashFile)
  /\ all_documents' = <<>>
  /\ pc' = "scan"
  /\ UNCHANGED <<cacheVars, cacheHist, call, retryLoop, pool, flat, memory, chunkLoop, chunker, step, skip_duplicates, diskVars, parallel,
                 processed_files, start_batch, batch_idx, batch, todo, processed, runInfo,
                 passed, ends, faults>>

\* _scan_directory handles the next file of the listing
ScanFile ==
  /\ pc = "scan"
  /\ scan.pos < Len(scan.dir)
  /\ \E outcome \in FileOutcomes :
       LET f == scan.dir[scan.pos + 1]
           r == _process_file(f, processed_hashes, skip_duplicates, outcome)
       IN /\ processed_hashes' = r.processed_hashes
          /\ all_documents' = all_documents \o r.documents
          /\ scan' = [scan EXCEPT !.pos = @ + 1,
                                   !.returned = IF r.documents = <<>> THEN @ ELSE Append(@, f)]
          /\ Fault(outcome # "ok")
  /\ UNCHANGED <<cacheVars, cacheHist, call, retryLoop, pool, flat, memory, chunkLoop, chunker, step, skip_duplicates, diskVars, pc, parallel,
                 processed_files, start_batch, batch_idx, batch, todo, processed, runs, runInfo,
                 passed, ends>>

\* the run has processed its documents: save_processed_hashes, and the process ends
IngestEnd ==
  /\ pc = "scan"
  /\ scan.pos = Len(scan.dir)
  /\ \E outcome \in SaveOutcomes :
       /\ hashFile' = SaveHashFile(processed_hashes, hashFile, outcome)
       /\ scan' = [scan EXCEPT !.saved = IF outcome = "ok" /\ skip_duplicates
                                          THEN @ \cup {BytesOf(f) : f \in Range(scan.returned)}
                                          ELSE @]
       /\ Fault(outcome # "ok")
  /\ IdleProc
  /\ ends' = Append(ends, "completed")
  /\ UNCHANGED <<cacheFile, cacheHist, call, retryLoop, pool, flat, memory, chunkLoop, chunker, step, skip_duplicates, store, checkpointFile,
                 runs, runInfo, passed>>

IngestNext ==
  \/ IngestStart
  \/ ScanFile
  \/ IngestEnd
  \/ Interrupt

SpecIngest == IngestInit /\ [][IngestNext]_vars

\* --------------------------------------------------- pipeline specification
Init ==
  /\ PipeInit
  /\ cache = <<>>
  /\ cacheFile = [state |-> "absent", data |-> <<>>]
  /\ lastOp = NoOp
  /\ accessOrder = <<>>
  /\ lastWritten = <<>>

Next ==
  \/ StartRun
  \/ ExtractStep
  \/ EmbedStep
  \/ StoreStep
  \/ SaveState
  \/ SaveCheckpoint
  \/ ReleaseMemory
  \/ Finalize
  \/ Interrupt
  \/ CrashInSaveCheckpoint

Spec == Init /\ [][Next]_vars

\* ------------------- the stage runners when an exception leaves process()
\* the stage's error text for an exception the runner catches
RunnerError == [extract |-> "Extraction error", store |-> "Storage error"]

\* the stage after the stage at pc
NextStage == [extract |-> "embed", embed |-> "store", store |-> "save_state"]

\* the document the except branch of _parallel_extract / _parallel_store
\* appends: futures[future], marked failed
MarkedFailed(doc) ==
  [doc EXCEPT !.processing_status = "failed", !.errors = Append(@, RunnerError[pc])]

\* the exception leaves the stage runner, _process_batch and process; main
\* reports a fatal error and the process exits
RunnerAborts ==
  /\ IdleProc
  /\ ends' = Append(ends, "fatal")
  /\ UNCHANGED <<cacheFile, cacheHist, call, retryLoop, pool, flat, memory, chunkLoop, chunker, scan,
                 step, skip_duplicates, diskVars, runs, runInfo, passed>>

\* the except branch of a pooled runner appends doc to its output
RunnerCatches(i, out) ==
  /\ StageStep(i, out, NextStage[pc])
  /\ passed' = [passed EXCEPT ![pc] = @ \cup {batch[i].file_path}]
  /\ step' = [NoStep EXCEPT !.stage = pc, !.raised = TRUE, !.before = batch[i],
                            !.after = out[Len(out)], !.storeBefore = store,
                            !.cacheBefore = cache, !.log = "failed"]
  /\ UNCHANGED <<cacheVars, cacheHist, call, retryLoop, pool, flat, memory, chunkLoop, chunker, scan,
                 skip_duplicates, diskVars, parallel, processed_hashes, all_documents,
                 processed_files, start_batch, batch_idx, runs, runInfo, ends>>

\* an exception leaves the process() of the stage's agent for one document: the
\* pooled runners (_parallel_extract, _parallel_store) catch it at
\* future.result(), the loops of the other runners do not
ProcessEscapes ==
  /\ pc \in {"extract", "embed", "store"}
  /\ Fault(TRUE)
  /\ \E i \in Pick :
       IF parallel /\ pc \in {"extract", "store"}
       THEN RunnerCatches(i, Append(processed, MarkedFailed(batch[i])))
       ELSE RunnerAborts

\* _parallel_extract / _sequential_extract: the extraction of a PDF asks for
\* OCR and the re-routing to the OCR agent raises. The pooled runner has
\* appended the extraction result already and its except branch appends
\* futures[future], the same document object, once more
OcrRerouteEscapes ==
  /\ pc = "extract"
  /\ Fault(TRUE)
  /\ \E i \in Pick :
       /\ batch[i].file_type = "pdf"
       /\ LET result == ExtractionProcess(batch[i], "requires_ocr")
              doc == MarkedFailed(result)
          IN IF parallel
             THEN RunnerCatches(i, processed \o <<doc, doc>>)
             ELSE RunnerAborts

RunnersNext ==
  \/ StagesStart
  \/ StagesExtract
  \/ StagesEmbed
  \/ StagesStore
  \/ ProcessEscapes
  \/ OcrRerouteEscapes

SpecRunners == StagesInit /\ [][RunnersNext]_vars

\* -------------------- one uninterrupted run with the fallback splitter
\* a paragraph break so close to the start of the text that the slice it ends
\* is no longer than the overlap
EarlyBreaks == {4 * chunk_overlap - 2}

\* the texts of the plaintext file: longer than one slice, without a break, with
\* a break near the end of the first slice, with a break near its start
LiveTexts ==
  {t \in CharTexts : t.len = 4 * chunk_size + min_chunk_size /\ t.sent = {}}
    \cup {[len |-> 4 * chunk_size + min_chunk_size, para |-> EarlyBreaks, sent |-> {}]}

\* EmbeddingAgent._simple_chunk, one pass of the while loop from position start:
\* the position the next pass starts from
SimpleChunkNext(text, size, start) ==
  LET char_chunk_size == size * 4
      overlap == chunk_overlap * 4
      end0 == start + char_chunk_size
      para_break == rfind(text.para, start, end0)
      sent_break == rfind(text.sent, start, end0)
      end == IF end0 < text.len
             THEN IF para_break > start THEN para_break + 2
                  ELSE IF sent_break > start THEN sent_break + 2 ELSE end0
             ELSE end0
  IN IF end < text.len THEN end - overlap ELSE end

\* EmbeddingAgent.process reaches _chunk_text for the plaintext file
EntersChunker(doc) ==
  /\ doc.file_path = PlainDoc
  /\ doc.content \notin {NoContent, ""}
  /\ doc.processing_status # "failed"

\* the splitter's output for a document of the run
LivePieces(doc) ==
  IF doc.file_path = PlainDoc /\ doc.content = "text"
  THEN PiecesOf(chunkLoop.text, _simple_chunk(chunkLoop.text, chunk_size))
  ELSE text_chunks(doc.content, doc.file_path)

\* the input directory holds a plaintext file with one of the texts
LiveOpen ==
  /\ pc = "idle"
  /\ runs = 0
  /\ chunkLoop.state = "idle"
  /\ \E text \in LiveTexts : chunkLoop' = [NoLoop EXCEPT !.text = text, !.state = "ready"]
  /\ UNCHANGED <<cacheVars, cacheHist, call, retryLoop, pool, flat, memory, chunker, scan, step,
                 skip_duplicates, diskVars, procVars, pipeHist>>

\* Orchestrator.process is called, once
LiveStart ==
  /\ chunkLoop.state = "ready"
  /\ runs = 0
  /\ StartRun

\* EmbeddingAgent._simple_chunk on the plaintext file's text: one pass of the
\* while loop, or the loop's exit
LiveChunk ==
  /\ pc = "embed"
  /\ todo # {}
  /\ EntersChunker(batch[Min(todo)])
  /\ chunkLoop.state \in {"ready", "running"}
  /\ chunkLoop' =
       IF chunkLoop.start < chunkLoop.text.len
       THEN [chunkLoop EXCEPT !.state = "running",
                              !.start = SimpleChunkNext(chunkLoop.text, chunk_size, @),
                              !.tick = 1 - @]
       ELSE [chunkLoop EXCEPT !.state = "done"]
  /\ UNCHANGED <<cacheVars, cacheHist, call, retryLoop, pool, flat, memory, chunker, scan, step,
                 skip_duplicates, diskVars, procVars, pipeHist>>

\* embedding_agent.process(batch[i]) can return: _simple_chunk has returned, or
\* was not called, or an exception is raised before it is called
EmbedReady(i, raises) ==
  EntersChunker(batch[i])
    => \/ chunkLoop.state = "done"
       \/ raises /\ chunkLoop.state = "ready"

\* the embedding stage runner collects one document; the plaintext file's
\* document once _simple_chunk has returned
LiveEmbed ==
  /\ pc = "embed"
  /\ \E i \in Pick : \E raises \in BOOLEAN, behaviour \in ProviderBehaviours :
       LET r == EmbeddingProcessOn(batch[i], cache, raises, behaviour, LivePieces(batch[i])) IN
       /\ EmbedReady(i, raises)
       /\ StageStep(i, Append(processed, r.doc), "store")
       /\ cache' = r.cache
       /\ passed' = [passed EXCEPT !.embed = @ \cup {batch[i].file_path}]
       /\ step' = [stage |-> "embed", raised |-> (raises /\ r.log # "skipped"),
                   before |-> batch[i], after |-> r.doc, storeBefore |-> store,
                   cacheBefore |-> cache, calls |-> r.calls, log |-> r.log,
                   extracted |-> batch[i], ocr_called |-> FALSE]
       /\ Fault(raises \/ \E g \in 1..MaxGroups : behaviour[g] # 0)
  /\ UNCHANGED <<cacheFile, cacheHist, call, retryLoop, pool, flat, memory, chunkLoop, chunker, scan,
                 skip_duplicates, diskVars, parallel, processed_hashes, all_documents,
                 processed_files, start_batch, batch_idx, runs, runInfo, ends>>

LiveNext ==
  \/ LiveOpen
  \/ LiveStart
  \/ ExtractStep
  \/ LiveChunk
  \/ LiveEmbed
  \/ StoreStep
  \/ SaveState
  \/ SaveCheckpoint
  \/ ReleaseMemory
  \/ Finalize

\* the steps of the run other than those of the embedding stage runner
LiveRest ==
  \/ LiveOpen
  \/ LiveStart
  \/ ExtractStep
  \/ LiveChunk
  \/ StoreStep
  \/ SaveState
  \/ SaveCheckpoint
  \/ ReleaseMemory
  \/ Finalize

\* what a step of LiveEmbed does to the runner's position: the document whose
\* turn it is leaves todo, and after the last one the runner returns the list
EmbedTurn ==
  /\ pc = "embed"
  /\ \E i \in Pick :
       /\ \E raises \in BOOLEAN : EmbedReady(i, raises) /\ (raises => faults < MaxFaults)
       /\ todo' = IF todo = {i} THEN 1..(Len(processed) + 1) ELSE todo \ {i}
       /\ pc' = IF todo = {i} THEN "store" ELSE pc

\* the process is one thread that is never interrupted: whenever it has a next
\* statement it executes one. The turn of the embedding stage runner is fair
\* through its position, which is all that decides whether it can go on
SpecLive ==
  Init /\ [][LiveNext]_vars /\ WF_vars(LiveRest) /\ WF_<<pc, todo>>(EmbedTurn)

\* --------------------------------------------------------- pipeline claims
\* the records an uninterrupted run without failures stores for document d
FullRecords(d) ==
  LET chunks == _chunk_text("text", d)
  IN {[source_file |-> d, chunk_index |-> chunks[i].chunk_index, text |-> chunks[i].text,
       embedding |-> EmbedOf(chunks[i].text)] : i \in 1..Len(chunks)}

FullStore == SetToBag(UNION {FullRecords(d) : d \in Docs})

\* the chunk indices of document d that have a record in the vector store
StoredChunks(d) == {r.chunk_index : r \in {x \in BagToSet(store) : x.source_file = d}}

\* one uninterrupted run without failures stores every chunk of every document once
UninterruptedRunStoresAll ==
  (faults = 0 /\ pc = "idle" /\ ends = <<"completed">>) => store = FullStore

\* C1: over the fixed document set, with the default configuration (duplicate
\* suppression enabled) and no failure of a file, the provider, the store or the
\* disk, in any run that was started with resume requested, also one that follows
\* an interrupted run, the vector store holds at most one record per chunk of
\* each document.
C1_AtMostOneRecordPerChunk ==
  (skip_duplicates /\ faults = 0 /\ runInfo.resume) =>
    \A r \in BagToSet(store) :
      /\ CopiesIn(r, store) <= 1
      /\ \A q \in BagToSet(store) :
           (q.source_file = r.source_file /\ q.chunk_index = r.chunk_index) => q = r

\* C2: with duplicate suppression enabled and no failures, a run interrupted
\* after batch i < n was checkpointed, followed by a run with resume enabled that
\* returns, leaves the vector store as one uninterrupted run would.
C2_ResumeEqualsUninterrupted ==
  (/\ skip_duplicates
   /\ faults = 0
   /\ pc = "idle"
   /\ Len(ends) = 2
   /\ ends[1] = "after_checkpoint"
   /\ ends[2] \in {"completed", "empty"}
   /\ runInfo.resume) => store = FullStore

\* C3: the documents a resumed run sends through the stages, after a run that
\* was interrupted once batch i was checkpointed, are exactly the discovered
\* set D minus the completed keys of that checkpoint.
C3_ResumedRunProcessesRemainder ==
  (/\ runs = 2
   /\ ends # <<>>
   /\ ends[1] = "after_checkpoint"
   /\ runInfo.resume) => runInfo.kept = Docs \ runInfo.completed

\* C4: every key in the completed set of a saved checkpoint belongs to a
\* document whose storage stage was not skipped and whose chunks all have a
\* record in the vector store.
C4_CheckpointedDocsAreStored ==
  checkpointFile.state = "ok" =>
    \A d \in Range(checkpointFile.processed_files) :
      /\ StoredChunks(d) # {}
      /\ StoredChunks(d) = {r.chunk_index : r \in FullRecords(d)}

\* C5: in a run that loaded a checkpoint, no document whose key is in the
\* checkpoint's completed set is handed to the embedding or the storage stage.
C5_CompletedDocsAreSkipped ==
  runInfo.loaded => (passed.embed \cup passed.store) \cap runInfo.completed = {}

\* C5 witness: a run loaded a checkpoint with completed keys and has handed
\* another document to the embedding and the storage stage.
C5_Witness ==
  /\ runInfo.loaded
  /\ runInfo.completed # {}
  /\ passed.embed # {}
  /\ passed.store # {}

\* ------------------------------------------------------- checkpoint claims
\* C14: the checkpoint is overwritten atomically: when the process dies at the
\* save_checkpoint of a batch, with or without having started to write, a
\* subsequent load_checkpoint yields the checkpoint of the batch before (what a
\* load yielded before the save) or the checkpoint of this batch.
C14_CheckpointWriteIsAtomic ==
  [][(pc = "checkpoint" /\ pc' = "idle") =>
       load_checkpoint(checkpointFile') \in {load_checkpoint(checkpointFile), NextCheckpoint}]_vars

InStage == Range(processed) \cup {batch[i] : i \in todo}

\* C11: in every stage runner, in sequential and in concurrent mode, an
\* exception raised in the transform of one document leaves that document with
\* status failed and one more error message, in the runner's output list; the
\* runner goes on: while a stage runs every document of the batch is either
\* collected or still to collect, and the list a stage returns holds every
\* document of the batch once, each of them handed to the stage.
C11_FailureDoesNotAbortBatch ==
  /\ step.raised =>
       /\ step.after.processing_status = "failed"
       /\ Len(step.after.errors) = Len(step.before.errors) + 1
       /\ step.after \in Range(processed) \cup Range(batch)
  /\ pc \in {"extract", "embed", "store"} =>
       /\ Len(processed) + Cardinality(todo) = NumDocs
       /\ {doc.file_path : doc \in InStage} = Docs
  /\ pc \in {"embed", "store", "save_state"} =>
       /\ Len(batch) = NumDocs
       /\ {batch[i].file_path : i \in 1..Len(batch)} = Docs
       /\ passed.extract = Docs
  /\ pc \in {"store", "save_state"} => passed.embed = Docs
  /\ pc = "save_state" => passed.store = Docs

\* C11 witness: a concurrent batch has gone through the three stages, two of
\* its documents failed with an exception in different stages and another one
\* was stored.
C11_Witness ==
  /\ pc = "save_state"
  /\ parallel
  /\ \E i, j, k \in 1..Len(batch) :
       /\ "Extraction error" \in Range(batch[i].errors)
       /\ "Database error" \in Range(batch[j].errors)
       /\ batch[i].processing_status = "failed"
       /\ batch[j].processing_status = "failed"
       /\ batch[k].processing_status = "completed"
       /\ RecordsOf(batch[k]) # {}
       /\ \A r \in RecordsOf(batch[k]) : BagIn(r, store)

\* the (chunk text, vector) pairs of a collection, with their multiplicity
StoredPairs(st) == BagOfAll(LAMBDA r : <<r.text, r.embedding>>, st)

\* the collection after the documents went, in list order and without any
\* failure, through extraction, embedding and storage
RECURSIVE SequentialStore(_, _, _)
SequentialStore(docs, c, st) ==
  IF docs = <<>> THEN st
  ELSE LET e == ExtractOne(docs[1], "text")
           m == EmbeddingProcess(e, c, FALSE, [g \in 1..MaxGroups |-> 0])
           d == DatabaseProcess(m.doc, st, FALSE)
       IN SequentialStore(Tail(docs), m.cache, d.store)

\* every document of the batch had its text extracted and carries no error
NoInducedFailure ==
  \A i \in 1..Len(batch) : batch[i].content = "text" /\ batch[i].errors = <<>>

\* C12: for the fixed document set and no failure, the multiset of (chunk
\* text, vector) pairs a batch leaves in the vector store is that of the
\* sequential run, in sequential mode and in concurrent mode whatever the order
\* in which the worker tasks complete.
C12_ParallelEqualsSequential ==
  (pc = "save_state" /\ NoInducedFailure) =>
    StoredPairs(store) = StoredPairs(SequentialStore(all_documents, <<>>, EmptyBag))

\* C12 witness: a concurrent batch without failure is through the storage
\* stage, its documents collected in another order than the list order.
C12_Witness ==
  /\ pc = "save_state"
  /\ parallel
  /\ NoInducedFailure
  /\ batch[1].file_path # Discovered[1]
  /\ store # EmptyBag

\* -------------------------------------------------------- ingestion claims
\* the position in the listing of the first file with the bytes of the file at j
FirstWithBytes(j) == Min({i \in 1..j : BytesOf(scan.dir[i]) = BytesOf(scan.dir[j])})

\* C13: with duplicate suppression enabled and every file readable, of the
\* files with identical bytes that a run discovers only the first is returned
\* as a document (the others never reach a stage), and a file whose bytes were
\* returned by an earlier run that saved its hash set is skipped after the
\* reload, as is every file whose hash was loaded.
C13_DuplicateIsSkipped ==
  (skip_duplicates /\ faults = 0) =>
    /\ \A j \in 1..scan.pos :
         /\ scan.dir[j] \in Range(scan.returned) <=>
              (FirstWithBytes(j) = j /\ _compute_hash(scan.dir[j]) \notin scan.loaded)
         /\ (pc = "scan" /\ BytesOf(scan.dir[j]) \in scan.saved)
              => scan.dir[j] \notin Range(scan.returned)
    /\ pc = "scan" => [i \in 1..Len(all_documents) |-> all_documents[i].file_path] = scan.returned

\* C13 witness: a later run has skipped a copy B of a file A that an earlier
\* run returned, and has returned another file and skipped its copy.
C13_Witness ==
  /\ skip_duplicates
  /\ faults = 0
  /\ runs = 2
  /\ pc = "scan"
  /\ scan.saved # {}
  /\ \E j \in 1..scan.pos :
       /\ BytesOf(scan.dir[j]) \in scan.saved
       /\ scan.dir[j] > NumDocs
       /\ scan.dir[j] \notin Range(scan.returned)

\* C13 witness, same run: the first of two files with identical bytes was
\* returned and the second was skipped.
C13_SameRun ==
  /\ skip_duplicates
  /\ faults = 0
  /\ scan.pos = 2
  /\ BytesOf(scan.dir[1]) = BytesOf(scan.dir[2])
  /\ scan.returned = <<scan.dir[1]>>

\* ------------------------------------------------------ embedding claims
\* the number of chunk texts in the request groups before the one that failed
EmbeddedBeforeFailure == (call.failed - 1) * EmbedBatchSize

\* C10: when the provider fails after all retries at some request group, the
\* embedding stage returns without raising (the document is not marked failed
\* by it), the chunks of the groups before carry the provider's vector for their
\* text, every later chunk carries no vector, and the storage stage inserts no
\* record for a chunk without a vector.
C10_PartialEmbeddingsKept ==
  call.failed > 0 =>
    /\ call.after.processing_status # "failed"
    /\ "Embedding error" \notin Range(call.after.errors)
    /\ Len(call.after.embeddings) = EmbeddedBeforeFailure
    /\ \A i \in 1..Len(call.after.chunks) :
         call.after.chunks[i].embedding =
           IF i <= EmbeddedBeforeFailure THEN EmbedOf(call.after.chunks[i].text) ELSE None
    /\ \A r \in BagToSet(store) : r.embedding # None
    /\ \A i \in 1..Len(call.after.chunks) :
         i > EmbeddedBeforeFailure =>
           \A r \in BagToSet(store) :
             (r.source_file = call.after.file_path
                /\ r.chunk_index = call.after.chunks[i].chunk_index)
               => (BagIn(r, call.storeBefore) /\ CopiesIn(r, store) = CopiesIn(r, call.storeBefore))

\* C10 witness: the provider failed at the second request group of a document,
\* so some chunks carry a vector and some do not, and the storage stage has run.
C10_Witness ==
  /\ call.failed > 1
  /\ pc = "idle"
  /\ \E i \in 1..Len(batch[1].chunks) : batch[1].chunks[i].embedding # None
  /\ \E i \in 1..Len(batch[1].chunks) : batch[1].chunks[i].embedding = None

\* ------------------------------------------------------------ cache claims
\* the last operation was a put of a key that was absent from a full cache
PutNewKeyIntoFull ==
  /\ lastOp.op = "put"
  /\ lastOp.key \notin Keys(lastOp.before)
  /\ Len(lastOp.before) = CacheMaxSize

\* C6: after any sequence of put, get, clear and load_cache operations the
\* number of entries of the LRUCache never exceeds its capacity N.
C6_CacheBound == Len(cache) <= CacheMaxSize

\* C6 witness: a put of a new key into a full cache has happened and the cache
\* holds exactly N entries afterwards.
C6_Witness == PutNewKeyIntoFull /\ Len(cache) = CacheMaxSize

\* C7: a put of a new key into a cache holding N entries evicts exactly one
\* entry, the one whose most recent access (get hit or put) is the oldest, and
\* keeps every other entry; a get hit makes its entry the most recently used.
C7_EvictsLeastRecentlyUsed ==
  /\ PutNewKeyIntoFull =>
       /\ Range(cache) = (Range(lastOp.before) \ {<<lastOp.order[1], Lookup(lastOp.before, lastOp.order[1])>>})
                           \cup {<<lastOp.key, lastOp.value>>}
       /\ Len(cache) = CacheMaxSize
       /\ lastOp.order[1] \notin Keys(cache)
  /\ (lastOp.op = "get" /\ lastOp.key \in Keys(lastOp.before)) =>
       /\ accessOrder[Len(accessOrder)] = lastOp.key
       /\ cache[Len(cache)][1] = lastOp.key
       /\ Range(cache) = Range(lastOp.before)

\* C7 witness: a new key was put into a full cache whose least recently
\* accessed key was not the key inserted first (a get hit or a put had promoted
\* the oldest insertion), and that least recently accessed key is gone.
C7_Witness ==
  /\ PutNewKeyIntoFull
  /\ lastOp.order[1] \notin Keys(cache)
  /\ lastOp.order[Len(lastOp.order)] \in Keys(cache)
  /\ lastOp.key \in Keys(cache)

\* C8: get(k) returns the value of the last put(k, v) for as long as k is
\* cached, also when k was already present with a different value.
C8_GetReturnsLastWrite ==
  (lastOp.op = "get" /\ lastOp.key \in Keys(lastOp.before)) =>
     lastOp.result = lastWritten[lastOp.key]

\* C9: save_cache followed by load_cache into a fresh cache (of the configured
\* capacity) yields exactly the saved set of key/value pairs: a successful save
\* writes the pairs of the cache, and a fresh cache loaded from a readable file
\* holds the file's pairs.
C9_SaveLoadRoundTrip ==
  /\ lastOp.op = "save" =>
       (cacheFile.state = "ok" /\ Range(cacheFile.data) = Range(lastOp.before))
  /\ (lastOp.op = "fresh_load" /\ cacheFile.state = "ok") =>
       Range(cache) = Range(cacheFile.data)

\* C9 witness: a full cache was saved and loaded into a fresh cache.
C9_Witness ==
  /\ lastOp.op = "fresh_load"
  /\ cacheFile.state = "ok"
  /\ Len(cacheFile.data) = CacheMaxSize
  /\ Len(cache) = CacheMaxSize

\* ------------------------------------------------------- chunking claims
\* C16: the chunk_index values of a document's chunks are 0, 1, 2, ... in
\* order, without a gap where a piece below the minimum length was dropped
C16_ChunkIndexesHaveNoGaps ==
  \A i \in 1..Len(batch) : \A k \in 1..Len(batch[i].chunks) :
    batch[i].chunks[k].chunk_index = k - 1

\* the slices of the chunks the document of the scenario was given
SlicesKept == SelectSeq(chunker.slices,
                        LAMBDA sl : StripLen(chunker.text, sl[1], sl[2]) >= min_chunk_size)

\* C17: a plaintext document of 2,500 characters, chunked at 800 tokens with an
\* overlap of 200 tokens and a minimum of 100 characters, embedded by a
\* provider that answers and stored in an empty collection, has more than one
\* chunk, consecutive chunks share characters, every chunk has at least 100
\* characters and a vector, and the collection holds one record per chunk
C17_Scenario ==
  (/\ pc = "idle" /\ call.n > 0
   /\ chunker.text.len = ScenarioLength
   /\ call.storeBefore = EmptyBag
   /\ batch[1].errors = <<>>)
  => LET chunks == batch[1].chunks
     IN /\ Len(chunks) > 1
        /\ Len(SlicesKept) = Len(chunks)
        /\ \A k \in 1..(Len(SlicesKept) - 1) : SlicesKept[k + 1][1] < SlicesKept[k][2]
        /\ \A k \in 1..Len(SlicesKept) : SlicesKept[k][2] - SlicesKept[k][1] >= min_chunk_size
        /\ \A k \in 1..Len(chunks) : chunks[k].embedding # None
        /\ BagCardinality(store) = Len(chunks)

\* ------------------------------------------------- document status claims
\* C18: a stage changes a document's status only from pending, to completed or
\* to failed; a completed or failed document keeps its status in every later stage
C18_StatusOnlyMovesForward ==
  step.stage # "none"
    => \/ step.after.processing_status = step.before.processing_status
       \/ /\ step.before.processing_status = "pending"
          /\ step.after.processing_status \in {"completed", "failed"}

\* C19: once a batch has gone through its three stages every document of it
\* is completed or failed, none is pending
C19_NoDocumentLeftPending ==
  pc = "save_state"
    => \A i \in 1..Len(batch) : batch[i].processing_status \in {"completed", "failed"}

\* C20: a document that is failed when the embedding or the storage stage
\* takes it is skipped: it comes back unchanged, the provider gets no request,
\* the cache and the collection stay as they were, and the skip counter is the
\* one incremented
C20_FailedDocumentIsSkipped ==
  (step.stage \in {"embed", "store"} /\ step.before.processing_status = "failed")
    => /\ step.log = "skipped"
       /\ step.calls = 0
       /\ step.after = step.before
       /\ store = step.storeBefore
       /\ cache = step.cacheBefore

C20_Witness ==
  /\ step.stage = "store"
  /\ step.before.processing_status = "failed"
  /\ step.log = "skipped"
  /\ \E i \in 1..Len(processed) : processed[i] = step.after
  /\ store # EmptyBag
  /\ store = step.storeBefore

C20_WitnessEmbed ==
  /\ step.stage = "embed"
  /\ step.before.processing_status = "failed"
  /\ step.log = "skipped"
  /\ cache # <<>>

\* ------------------------------------------------------- metadata claims
\* the textual form of a value that is not a scalar, as str() gives it
TextualForm(value) ==
  IF value.kind = "list"
  THEN <<"[">> \o Join([i \in 1..Len(value.v) |->
                          IF value.v[i].kind = "str"
                          THEN StrVal(<<"'">> \o value.v[i].v \o <<"'">>) ELSE value.v[i]])
             \o <<"]">>
  ELSE Repr(value)

\* C21: in the flattened metadata every scalar field is unchanged, every list
\* of strings is one delimited string, every other non-scalar value is its
\* textual form, and exactly the fields whose value is None are missing
C21_MetadataIsFlattened ==
  flat.called =>
    /\ DOMAIN flat.result = {k \in DOMAIN flat.metadata : flat.metadata[k].kind # "none"}
    /\ \A k \in DOMAIN flat.metadata :
         LET value == flat.metadata[k] IN
         value.kind # "none" =>
           /\ k \in DOMAIN flat.result
           /\ IF value.kind \in ScalarKinds
              THEN flat.result[k].kind = value.kind /\ flat.result[k].v = value.v
              ELSE /\ flat.result[k].kind = "str"
                   /\ flat.result[k].v = IF value.kind = "list" /\ AllStrings(value.v)
                                         THEN Join(value.v) ELSE TextualForm(value)

\* ------------------------------------------------- batch sequencing claims
\* the coordinator is inside a batch: its stage runners or the saving of the
\* cache and hash state are under way
MidBatch == {"extract", "embed", "store", "save_state"}

\* the checkpoint saved after the batch before the current one
PreviousCheckpoint ==
  [state |-> "ok", processed_files |-> processed_files,
   current_batch |-> CurrentBatchNum - 1, total_batches |-> checkpointFile.total_batches]

\* C22: the checkpoint file changes only in the coordinator's save after a
\* batch (or the final clear), when every document of the batch has come back
\* from extraction, embedding and storage, and never in a step of a stage
\* runner; a run interrupted inside batch i leaves on disk the checkpoint
\* saved after batch i-1, and none when i = 1 in the first run
C22_CheckpointOnlyAfterBatch ==
  [][/\ checkpointFile' # checkpointFile
          => /\ pc \in {"checkpoint", "finalize"}
             /\ todo = {} /\ processed = <<>>
     /\ (pc = "checkpoint" /\ pc' = "release")
          => {batch[i].file_path : i \in 1..Len(batch)}
               \subseteq (passed.extract \cap passed.embed \cap passed.store)
     /\ (pc \in MidBatch /\ pc' = "idle")
          => /\ checkpointFile' = checkpointFile
             /\ (faults = 0 /\ (batch_idx > 0 \/ runInfo.loaded))
                  => checkpointFile' = PreviousCheckpoint
             /\ (runs = 1 /\ batch_idx = 0) => checkpointFile'.state = "absent"]_vars

C22_Witness ==
  /\ pc = "idle" /\ runs = 1 /\ ends = <<"mid_batch">>
  /\ Discovered[NumDocs] \in passed.extract
  /\ Discovered[NumDocs] \notin passed.store
  /\ checkpointFile.state = "ok"
  /\ checkpointFile.current_batch = 1

\* the steps of the coordinator in the order of the code: from each step the
\* one that may follow it
StepOrder ==
  {<<"idle", "extract">>, <<"idle", "finalize">>, <<"extract", "embed">>,
   <<"embed", "store">>, <<"store", "save_state">>, <<"save_state", "checkpoint">>,
   <<"checkpoint", "release">>, <<"release", "extract">>, <<"release", "finalize">>}

PathsIn(docs) == {docs[i].file_path : i \in 1..Len(docs)}

\* C23: the coordinator goes through extraction, embedding, storage, the saving
\* of cache and hashes, the checkpoint save and the memory release in this
\* order; a stage starts when every document of the batch has left the stage
\* before it; the batch is the next StreamBatchSize documents in discovery
\* order, and the next batch is taken only by the memory release that follows
\* the checkpoint save
C23_StepsInOrder ==
  [][/\ (pc' # pc /\ pc' # "idle") => <<pc, pc'>> \in StepOrder
     /\ pc \in {"embed", "store", "save_state", "checkpoint", "release"}
          => PathsIn(batch) \subseteq passed.extract
     /\ pc \in {"store", "save_state", "checkpoint", "release"}
          => PathsIn(batch) \subseteq passed.embed
     /\ pc \in {"save_state", "checkpoint", "release"}
          => PathsIn(batch) \subseteq passed.store
     /\ pc = "extract" => passed.embed \cap PathsIn(batch) = {}
     /\ pc \in {"extract", "embed"} => passed.store \cap PathsIn(batch) = {}
     /\ pc \in MidBatch \cup {"checkpoint", "release"}
          => /\ PathsIn(batch) = PathsIn(BatchAt(all_documents, batch_idx))
             /\ \A i \in 1..batch_idx : all_documents[i].file_path \in passed.store
             /\ \A i \in 1..Len(all_documents) :
                  i > batch_idx + StreamBatchSize
                    => all_documents[i].file_path \notin passed.extract
             /\ \A i, j \in 1..Len(all_documents) :
                  i < j => all_documents[i].file_path < all_documents[j].file_path
     /\ (pc # "idle" /\ pc' # "idle" /\ batch_idx' # batch_idx)
          => pc = "release" /\ batch_idx' = batch_idx + StreamBatchSize
     /\ (cacheFile' # cacheFile \/ hashFile' # hashFile) => pc \in {"save_state", "finalize"}]_vars

C23_Witness ==
  /\ pc = "embed" /\ batch_idx = StreamBatchSize /\ runs = 1
  /\ checkpointFile.state = "ok" /\ checkpointFile.current_batch = 1
  /\ hashFile.exists
  /\ PathsIn(batch) = {Discovered[NumDocs]}
  /\ passed.store = PathsIn(SubSeq(all_documents, 1, StreamBatchSize))

\* ----------------------------------------------------- provider claims
\* the requests of the last call of _generate_embeddings for request group g
RequestsOf(g) == SelectSeq(retryLoop.result.requests, LAMBDA rq : rq.group = g)

\* the request groups of the last call's texts
GroupsOf(texts) == 1..((Len(texts) + EmbedBatchSize - 1) \div EmbedBatchSize)

\* what the provider does, with rate-limit errors and other errors exchanged
Exchanged(attempts) ==
  [g \in DOMAIN attempts |->
     [k \in DOMAIN attempts[g] |->
        IF attempts[g][k] = "rate_limit" THEN "other"
        ELSE IF attempts[g][k] = "other" THEN "rate_limit" ELSE attempts[g][k]]]

\* C24: for one request group the provider gets at most max_retries requests,
\* whether it raises rate-limit errors or other errors; the first retry comes
\* after a wait of 1 second and every further one after twice the wait before;
\* when every attempt of a group has failed _generate_embeddings returns the
\* embeddings of the groups before it
C24_BoundedRetries ==
  retryLoop.called =>
    LET r == retryLoop.result IN
    /\ \A g \in GroupsOf(retryLoop.texts) :
         /\ Len(RequestsOf(g)) <= retryLoop.max_retries
         /\ \A k \in 1..Len(RequestsOf(g)) :
              RequestsOf(g)[k].wait = (IF k = 1 THEN 0 ELSE 2 ^ (k - 2))
         /\ \A k \in 1..(Len(RequestsOf(g)) - 1) :
              retryLoop.attempts[g][k] \in {"rate_limit", "other"}
    /\ r = [GenerateFrom(retryLoop.texts, retryLoop.cacheBefore, Exchanged(retryLoop.attempts),
                         retryLoop.max_retries, 1, <<>>, <<>>) EXCEPT !.requests = r.requests]
    /\ (retryLoop.max_retries > 0 /\ r.failed > 0) =>
         /\ \A k \in 1..retryLoop.max_retries :
              retryLoop.attempts[r.failed][k] \in {"rate_limit", "other"}
         /\ Len(RequestsOf(r.failed)) = retryLoop.max_retries
         /\ Len(r.embeddings) = (r.failed - 1) * EmbedBatchSize
    /\ (retryLoop.max_retries > 0 /\ r.failed = 0) =>
         Len(r.embeddings) = Len(retryLoop.texts)
    /\ (retryLoop.max_retries > 0) =>
         \A i \in 1..Len(r.embeddings) :
           \/ r.embeddings[i] = EmbedOf(retryLoop.texts[i])
           \/ /\ r.embeddings[i] = None
              /\ \E k \in 1..retryLoop.max_retries :
                   retryLoop.attempts[((i - 1) \div EmbedBatchSize) + 1][k] = "short"

C24_Witness ==
  /\ retryLoop.called /\ retryLoop.max_retries = max_retries
  /\ retryLoop.result.failed = 2
  /\ retryLoop.attempts[2][1] = "rate_limit" /\ retryLoop.attempts[2][2] = "other"
  /\ Len(RequestsOf(1)) = 2 /\ Len(RequestsOf(2)) = max_retries
  /\ RequestsOf(2)[max_retries].wait = 2
  /\ Len(retryLoop.result.embeddings) = EmbedBatchSize

\* the texts of request group g of the last call
GroupTexts(g) ==
  SubSeq(retryLoop.texts, (g - 1) * EmbedBatchSize + 1,
         IF g * EmbedBatchSize < Len(retryLoop.texts) THEN g * EmbedBatchSize
         ELSE Len(retryLoop.texts))

\* the cache the last call looked request group g up in, when it got that far
CacheAtGroup(g) ==
  GenerateFrom(SubSeq(retryLoop.texts, 1, (g - 1) * EmbedBatchSize), retryLoop.cacheBefore,
               retryLoop.attempts, retryLoop.max_retries, 1, <<>>, <<>>).cache

\* C25: every text sent to the provider had no cache entry for its fingerprint
\* when its request group was looked up; a request carries texts of one
\* request group of at most EmbedBatchSize texts; a group whose texts are all
\* in the cache causes no request; the fingerprint is that of the text alone,
\* so a text cached for another document is a hit
C25_ProviderOnlyForMisses ==
  retryLoop.called =>
    LET r == retryLoop.result IN
    /\ \A k \in 1..Len(r.requests) :
         LET rq == r.requests[k] IN
         /\ rq.group \in GroupsOf(retryLoop.texts)
         /\ rq.batch = GroupTexts(rq.group)
         /\ Len(rq.batch) <= EmbedBatchSize
         /\ rq.contents # <<>>
         /\ rq.contents = SelectSeq(rq.batch, LAMBDA t : _hash_text(t) \notin rq.cached)
         /\ rq.cached = Keys(CacheAtGroup(rq.group))
    /\ \A g \in GroupsOf(retryLoop.texts) :
         (/\ r.failed = 0 \/ g <= r.failed
          /\ \A i \in 1..Len(GroupTexts(g)) :
               _hash_text(GroupTexts(g)[i]) \in Keys(CacheAtGroup(g)))
           => RequestsOf(g) = <<>>

C25_Witness ==
  /\ retryLoop.called /\ retryLoop.max_retries = max_retries
  /\ Len(retryLoop.texts) > EmbedBatchSize
  /\ RequestsOf(1) = <<>>
  /\ Len(RequestsOf(2)) = 1
  /\ retryLoop.cacheBefore # <<>>
  /\ Len(retryLoop.result.embeddings) = Len(retryLoop.texts)

C25_WitnessPartial ==
  /\ retryLoop.called
  /\ \E k \in 1..Len(retryLoop.result.requests) :
       LET rq == retryLoop.result.requests[k]
       IN Len(rq.batch) = EmbedBatchSize /\ Len(rq.contents) = 1

\* ------------------------------------------------------- storage claims
\* the document has no vectors at all, or some chunk of it carries none
LacksVectors(doc) ==
  \/ doc.embeddings = <<>>
  \/ \E i \in 1..Len(doc.chunks) : doc.chunks[i].embedding = None

\* C26: the storage stage skips a document that lacks vectors: it inserts
\* nothing, returns the document as it was, not failed, and counts it as skipped
C26_StorageSkipsMissingVectors ==
  (step.stage = "store" /\ LacksVectors(step.before) /\ ~step.raised)
    => /\ store = step.storeBefore
       /\ step.log = "skipped"
       /\ step.after.processing_status = step.before.processing_status
       /\ step.after.errors = step.before.errors

\* ---------------------------------------------------- extraction claims
\* the documents of file d in the output list of the current stage runner
OutputFor(d) ==
  LET out == IF processed # <<>> THEN processed ELSE batch
  IN SelectSeq(out, LAMBDA doc : doc.file_path = d)

\* C27: in the sequential and in the concurrent runner a PDF goes to the OCR
\* agent exactly when its extraction set requires_ocr, after the extraction,
\* and the runner's output then holds the OCR agent's result for it, once
C27_FlaggedPdfGoesToOcr ==
  (step.stage = "extract" /\ step.before.file_type = "pdf")
    => /\ step.ocr_called <=> step.extracted.requires_ocr
       /\ step.extracted.requires_ocr
            => \E outcome \in ExtractOutcomes("pdf") :
                 /\ step.extracted = ExtractionProcess(step.before, outcome)
                 /\ step.after = OcrProcess(step.extracted, outcome)
       /\ ~step.extracted.requires_ocr => step.after = step.extracted
       /\ OutputFor(step.before.file_path) = <<step.after>>

C27_Witness ==
  /\ step.stage = "extract" /\ step.before.file_type = "pdf" /\ parallel
  /\ step.ocr_called /\ step.extracted.requires_ocr
  /\ Len(processed) > 1
  /\ OutputFor(step.before.file_path) = <<step.after>>

C27_WitnessSequential ==
  /\ step.stage = "extract" /\ step.before.file_type = "pdf" /\ ~parallel
  /\ step.ocr_called /\ step.extracted.requires_ocr
  /\ OutputFor(step.before.file_path) = <<step.after>>

\* ---------------------------------------------------- empty discovery claims
\* C28: a run whose discovery returns no documents still goes through the
\* finalizing step before it returns: afterwards no checkpoint is left on disk
\* (no file operation failed and no run was killed inside save_checkpoint)
C28_EmptyRunStillFinalizes ==
  (/\ pc = "idle" /\ ends # <<>> /\ ends[Len(ends)] = "empty"
   /\ faults = 0
   /\ \A k \in 1..Len(ends) : ends[k] # "crash_in_save_checkpoint")
    => checkpointFile.state = "absent"

\* ---------------------------------------------------- checkpoint failure claims
\* the last run was ended from outside in this step
Killed == ends' # ends /\ ends'[Len(ends')] \in {"mid_batch", "after_checkpoint",
                                                "crash_in_save_checkpoint"}

FreshDocuments == Ingest(Discovered, LoadHashes(hashFile), <<>>, skip_duplicates).documents

\* C29: a checkpoint that cannot be written, removed, read or parsed never
\* aborts the run: after save_checkpoint the batch loop goes on whatever became
\* of the file, after clear_checkpoint the run returns as completed, and a run
\* asked to resume without a file that load_checkpoint can parse starts with
\* every discovered document, batch number 0 and no processed files, and
\* stores every one of them before it completes
C29_CheckpointFailureNeverAborts ==
  [][ /\ (pc = "checkpoint" /\ ~Killed)
        => /\ pc' = "release"
           /\ processed_files' = processed_files \o CompletedKeys(batch)
      /\ (pc = "finalize" /\ ~Killed)
        => /\ pc' = "idle"
           /\ ends'[Len(ends')] \in {"completed", "completed_unlink_failed"}
           /\ ~runInfo.loaded => runInfo.discovered \subseteq passed.store
      /\ (pc = "idle" /\ runs' = runs + 1 /\ runInfo'.resume /\ checkpointFile.state # "ok")
        => /\ ~runInfo'.loaded
           /\ runInfo'.kept = runInfo'.discovered
           /\ runInfo'.discovered = {FreshDocuments[i].file_path : i \in 1..Len(FreshDocuments)}
           /\ FreshDocuments # <<>>
                => /\ all_documents' = FreshDocuments
                   /\ start_batch' = 0
                   /\ processed_files' = <<>>
                   /\ pc' = "extract" ]_vars

\* a run asked to resume found the file left by a failed write and has
\* completed after storing every document
C29_Witness ==
  /\ runs = 2 /\ runInfo.resume /\ ~runInfo.loaded
  /\ faults > 0
  /\ Len(ends) = 2 /\ ends[1] = "mid_batch" /\ ends[2] = "completed"
  /\ runInfo.completed = {}
  /\ runInfo.kept = {Discovered[i] : i \in 1..NumDocs}
  /\ passed.store = runInfo.kept

\* the run goes on while the file that save_checkpoint left cannot be parsed
C29_WitnessSaveFailed ==
  /\ pc = "release" /\ checkpointFile.state = "corrupt" /\ faults > 0

\* ---------------------------------------------------- termination claims
\* C30: memory pressure never blocks or aborts the run: whatever the documents,
\* the memory readings and the provider's failures, a run that has started
\* finishes every batch and completes its finalization; a reading above the
\* limit is followed by one collection pass and a release of 3 passes, a
\* reading within the limit by none
C30_EveryRunReachesFinalization ==
  /\ [](memory.system_percent > max_memory_percent
          => memory.check_passes = 1 /\ memory.clear_passes = 3)
  /\ [](memory.system_percent <= max_memory_percent
          => memory.check_passes = 0 /\ memory.clear_passes = 0)
  /\ (runs > 0) ~> (/\ pc = "idle"
                    /\ ends # <<>> /\ ends[Len(ends)] \in {"completed", "completed_unlink_failed"}
                    /\ runInfo.kept \subseteq passed.store)

\* ---------------------------------------------------- batch partition claims
\* C31: the documents left by the resume filter are cut into streaming batches:
\* a batch is the next documents of the list in discovery order, holds
\* StreamBatchSize documents unless it is the last, which holds between 1 and
\* StreamBatchSize, starts where the batch before it ended, and no document of
\* it or after it was in an earlier batch; at finalization every remaining
\* document has been in a batch
C31_BatchesPartitionRemainder ==
  /\ pc = "extract"
       => /\ Len(batch) \in 1..StreamBatchSize
          /\ batch_idx % StreamBatchSize = 0
          /\ batch_idx + Len(batch) <= Len(all_documents)
          /\ \A k \in 1..Len(batch) : batch[k] = all_documents[batch_idx + k]
          /\ batch_idx + Len(batch) < Len(all_documents) => Len(batch) = StreamBatchSize
          /\ \A j \in 1..Len(all_documents) :
               /\ j <= batch_idx => all_documents[j].file_path \in passed.extract
               /\ j > batch_idx + Len(batch) => all_documents[j].file_path \notin passed.extract
               /\ (j > batch_idx /\ processed = <<>> /\ todo = 1..Len(batch))
                    => all_documents[j].file_path \notin passed.extract
          /\ \A i, j \in 1..Len(all_documents) :
               i < j => all_documents[i].file_path < all_documents[j].file_path
          /\ {all_documents[j].file_path : j \in 1..Len(all_documents)} = runInfo.kept
  /\ pc = "finalize" => runInfo.kept \subseteq passed.extract

\* the last batch of a run of NumDocs documents, shorter than the others
C31_Witness ==
  /\ pc = "extract" /\ batch_idx > 0 /\ Len(batch) < StreamBatchSize
  /\ Len(all_documents) = NumDocs

\* the single batch of a resumed run whose filter removed the first batch
C31_WitnessResumed ==
  /\ pc = "extract" /\ runInfo.loaded /\ batch_idx = 0
  /\ Len(all_documents) = NumDocs - StreamBatchSize

\* ---------------------------------------------------- checkpoint growth claims
\* s is the beginning of t
StartsWith(t, s) == Len(s) <= Len(t) /\ SubSeq(t, 1, Len(s)) = s

\* the keys of the documents of the batch whose status is completed
CompletedOf(docs) ==
  {docs[k].file_path : k \in {j \in 1..Len(docs) : docs[j].processing_status = "completed"}}

\* C32: a checkpoint save that succeeds writes the list kept so far followed by
\* the keys of the batch's completed documents, each key once, and a batch
\* number one above that of the save before it (of the loaded checkpoint for
\* the first batch of a resumed run), never above total_batches; a resumed run
\* starts from the loaded checkpoint's list and batch number
C32_CheckpointOnlyGrows ==
  [][ /\ (pc = "checkpoint" /\ pc' = "release" /\ faults' = faults)
        => /\ checkpointFile'.state = "ok"
           /\ StartsWith(checkpointFile'.processed_files, processed_files)
           /\ Len(checkpointFile'.processed_files)
                = Len(processed_files) + Cardinality(CompletedOf(batch))
           /\ Range(checkpointFile'.processed_files)
                = Range(processed_files) \cup CompletedOf(batch)
           /\ Cardinality(Range(checkpointFile'.processed_files))
                = Len(checkpointFile'.processed_files)
           /\ checkpointFile'.current_batch <= checkpointFile'.total_batches
           /\ checkpointFile'.current_batch >= 1
           /\ processed_files' = checkpointFile'.processed_files
           /\ (checkpointFile.state = "ok" /\ faults = 0 /\ (runInfo.loaded \/ batch_idx > 0))
                => /\ StartsWith(checkpointFile'.processed_files, checkpointFile.processed_files)
                   /\ checkpointFile'.current_batch = checkpointFile.current_batch + 1
      /\ (pc = "idle" /\ pc' # "idle" /\ runInfo'.loaded)
        => /\ processed_files' = checkpointFile.processed_files
           /\ start_batch' = checkpointFile.current_batch ]_vars

\* the save after the batch of a resumed run, above the loaded checkpoint
C32_Witness ==
  /\ pc = "release" /\ runInfo.loaded /\ faults = 0
  /\ checkpointFile.state = "ok"
  /\ checkpointFile.current_batch = 2
  /\ Len(checkpointFile.processed_files) = NumDocs

\* ---------------------------------------------------- duplicate claims
\* C33: a hash only makes a file a duplicate once its document has been run
\* through a batch: a file whose batch had not begun when the run before was
\* interrupted is discovered again by the next run
C33_HashOnlyAfterBatch ==
  [][ (/\ pc = "idle" /\ runs = 1 /\ runs' = 2
       /\ ends[Len(ends)] \in {"mid_batch", "after_checkpoint"})
        => \A i \in 1..NumDocs :
             Discovered[i] \notin passed.extract => Discovered[i] \in runInfo'.discovered ]_vars

\* ---------------------------------------------------- stage runner claims
\* the positions of the list at which the document of file d stands
PositionsOf(docs, d) == {k \in 1..Len(docs) : docs[k].file_path = d}

\* C34: the list a stage runner returns holds each document of the batch it
\* was given exactly once, in the sequential and in the concurrent mode, also
\* when a transform or the OCR re-routing of a PDF has raised
C34_RunnerOutputIsPermutation ==
  [][ (pc \in {"extract", "embed", "store"} /\ pc' \notin {pc, "idle"})
        => /\ Len(batch') = Len(batch)
           /\ \A k \in 1..Len(batch) :
                Cardinality(PositionsOf(batch', batch[k].file_path)) = 1 ]_vars



\* ------------------------------------ the worker threads of _parallel_store
\* the documents the storage stage can be handed for file d: one that never
\* got chunks, one with chunks and vectors, and one with chunks and vectors
\* that an earlier stage marked failed
StoreInputs(d) ==
  LET embedded == EmbeddingProcessOn([NewDoc(d) EXCEPT !.content = "text"], <<>>, FALSE,
                                     [g \in 1..MaxGroups |-> 0], SplitText(d)).doc
  IN {NewDoc(d), embedded, [embedded EXCEPT !.processing_status = "failed"]}

\* BaseAgent.log_success, log_error, log_skip: self.stats[counter] += 1, the
\* store of the sum of the value read before and 1
Increment(stats, counter, read) == [stats EXCEPT ![counter] = read + 1]

\* Orchestrator._parallel_store submits database_agent.process for every
\* document of the batch to the thread pool
PoolSubmit ==
  /\ pc = "idle"
  /\ runs = 0
  /\ runs' = 1
  /\ parallel' = TRUE
  /\ \E documents \in [1..NumDocs -> UNION {StoreInputs(d) : d \in Docs}] :
       /\ \A i \in 1..NumDocs : documents[i] \in StoreInputs(Discovered[i])
       /\ batch' = documents
  /\ pool' = [NoPool EXCEPT !.at = [i \in 1..NumDocs |-> "submitted"],
                            !.log = [i \in 1..NumDocs |-> "none"],
                            !.read = [i \in 1..NumDocs |-> 0],
                            !.result = batch']
  /\ todo' = 1..NumDocs
  /\ processed' = <<>>
  /\ pc' = "store"
  /\ UNCHANGED <<cacheVars, cacheHist, call, retryLoop, flat, memory, chunkLoop, chunker, scan,
                 step, skip_duplicates, diskVars, processed_hashes, all_documents,
                 processed_files, start_batch, batch_idx, runInfo, passed, ends, faults>>

\* a worker thread runs DatabaseAgent.process for its document up to the
\* statistics update of log_skip, log_error or log_success, and reads the counter
WorkerProcess ==
  /\ pc = "store"
  /\ \E i \in 1..NumDocs, raises \in BOOLEAN :
       LET r == DatabaseProcess(batch[i], store, raises) IN
       /\ pool.at[i] = "submitted"
       /\ store' = r.store
       /\ pool' = [pool EXCEPT !.at[i] = "read", !.log[i] = r.log,
                               !.read[i] = pool.stats[r.log], !.result[i] = r.doc]
  /\ UNCHANGED <<cacheVars, cacheHist, call, retryLoop, flat, memory, chunkLoop, chunker, scan,
                 step, skip_duplicates, hashFile, checkpointFile, procVars, pipeHist>>

\* the worker thread stores the incremented counter and returns its document
WorkerWrite ==
  /\ pc = "store"
  /\ \E i \in 1..NumDocs :
       /\ pool.at[i] = "read"
       /\ pool' = [pool EXCEPT !.at[i] = "done",
                               !.stats = Increment(pool.stats, pool.log[i], pool.read[i])]
  /\ UNCHANGED <<cacheVars, cacheHist, call, retryLoop, flat, memory, chunkLoop, chunker, scan,
                 step, skip_duplicates, diskVars, procVars, pipeHist>>

\* the runner collects a finished future (as_completed) and, after the last
\* one, returns its list
PoolCollect ==
  /\ pc = "store"
  /\ \E i \in todo :
       /\ pool.at[i] = "done"
       /\ todo' = todo \ {i}
       /\ IF todo = {i}
          THEN /\ batch' = Append(processed, pool.result[i])
               /\ processed' = <<>>
               /\ pc' = "save_state"
          ELSE /\ processed' = Append(processed, pool.result[i])
               /\ UNCHANGED <<batch, pc>>
  /\ UNCHANGED <<cacheVars, cacheHist, call, retryLoop, pool, flat, memory, chunkLoop, chunker,
                 scan, step, skip_duplicates, diskVars, parallel, processed_hashes,
                 all_documents, processed_files, start_batch, batch_idx, pipeHist>>

CountersNext ==
  \/ PoolSubmit
  \/ WorkerProcess
  \/ WorkerWrite
  \/ PoolCollect

SpecCounters == StagesInit /\ [][CountersNext]_vars

\* C37: every call of the database agent's process() increments exactly one of
\* the agent's three counters, so when the concurrent storage runner returns
\* the list of a batch of n documents the counters have grown by n in total,
\* whatever the interleaving of the worker threads
C37_CountersGrowByBatchSize ==
  (pc = "save_state" /\ pool.at # <<>>) =>
    pool.stats.processed + pool.stats.failed + pool.stats.skipped = Len(batch)

\* ------------------------------------ vectors against their texts
\* the vector the cache held for a text when request group g was looked up
CachedAt(g, text) ==
  LET c == CacheAtGroup(g) IN c[IndexOf(c, _hash_text(text))][2]

\* C35: the list _generate_embeddings returns is position-aligned with its
\* input: it is never longer than the texts, a partial result after a provider
\* failure holds exactly the groups before the failed one, and element i, when
\* it is a vector, is the vector the cache held for text i when its group was
\* looked up, or else the vector the provider computed for text i, also in a
\* group that mixes hits and misses
C35_VectorsAlignedWithTexts ==
  retryLoop.called =>
    LET r == retryLoop.result
        texts == retryLoop.texts
    IN /\ Len(r.embeddings) <= Len(texts)
       /\ r.failed > 0 => Len(r.embeddings) = (r.failed - 1) * EmbedBatchSize
       /\ r.failed = 0 => Len(r.embeddings) = Len(texts)
       /\ \A i \in 1..Len(r.embeddings) :
            LET g == ((i - 1) \div EmbedBatchSize) + 1 IN
            IF _hash_text(texts[i]) \in Keys(CacheAtGroup(g))
            THEN r.embeddings[i] = CachedAt(g, texts[i])
            ELSE r.embeddings[i] \in {EmbedOf(texts[i]), None}

\* a partial result whose only group mixed a cache hit and a miss with
\* different vectors: the hit comes first, the group after it failed
C35_Witness ==
  /\ retryLoop.called /\ retryLoop.max_retries = max_retries
  /\ retryLoop.result.failed = 2
  /\ Len(RequestsOf(1)) = 1
  /\ Len(RequestsOf(1)[1].contents) = 1
  /\ RequestsOf(1)[1].contents[1] = retryLoop.texts[2]
  /\ retryLoop.result.embeddings =
       <<EmbedOf(retryLoop.texts[1]), EmbedOf(retryLoop.texts[2])>>
  /\ EmbedOf(retryLoop.texts[1]) # EmbedOf(retryLoop.texts[2])


\* C36: every element of the list _generate_embeddings returns is a vector,
\* never the None placeholder of a cache miss, for every max_retries >= 0 and
\* whatever the provider does: raise, answer with one embedding per text, or
\* answer with fewer embeddings than texts
C36_NoPlaceholderReturned ==
  retryLoop.called =>
    \A i \in 1..Len(retryLoop.result.embeddings) : retryLoop.result.embeddings[i] # None


\* C38: _simple_chunk terminates: every pass of its while loop leaves the start
\* offset strictly greater than it found it and never negative, also when the
\* only paragraph break of the window lies fewer than overlap characters
\* after start
C38_StartStrictlyIncreases ==
  [][(chunkLoop'.tick # chunkLoop.tick)
       => (chunkLoop'.start > chunkLoop.start /\ chunkLoop'.start >= 0)]_vars

====
